---- MODULE Spec2Model ----
(***************************************************************************)
(* Model of dash_vale_ribeira_csv.py: the Streamlit dashboard of the Vale  *)
(* do Ribeira (PR).  The script loads four CSV files through a memoized    *)
(* loader, filters them to seven municipalities and derives cards, a       *)
(* unified table, charts and rankings.                                     *)
(*                                                                         *)
(* Data representation                                                     *)
(*   text cell     a sequence of one-character strings; NaN is the missing *)
(*                 text cell (what read_csv gives for an empty field)      *)
(*   numeric cell  <<"num", v>>, <<"txt", 0>> (text that is no number) or  *)
(*                 <<"nan", 0>> (missing); v is an integer in the unit of  *)
(*                 the column (hundredths of a hectare, thousandths of a   *)
(*                 risk score).  In a column that read_csv could not parse *)
(*                 as numbers every field stays text: <<"str", v>> is the  *)
(*                 text that spells the number v                           *)
(*   table         [colunas |-> set of column names,                       *)
(*                  linhas  |-> sequence of rows], a row being a function  *)
(*                 from colunas to cells                                   *)
(***************************************************************************)
EXTENDS Integers, Sequences, FiniteSets, TLC

VARIABLES
    arquivos,           \* the file system: path -> what read_csv would meet
    cache,              \* st.cache_data entries of carregar_csv, by path
    leituras,           \* number of pd.read_csv executions, by path
    primeiro,           \* what the first call of carregar_csv(p) returned
    erros,              \* st.error messages shown in the current run
    pc,                 \* position of the script
    execucao,           \* number of the current run of the script
    alteracoes,         \* number of changes made to the files so far
    df_alertas_raw, df_cnuc_raw, df_sigef_raw, df_queimadas_raw,
    df_alertas_vale,    \* filtrar_alertas_vale_ribeira(df_alertas_raw)
    df_queimadas_vale,  \* filtrar_queimadas_vale_ribeira(df_queimadas_raw)
    df_alertas_filtrado,    \* the alerts of the selected year
    df_queimadas_filtrado,  \* the fire-risk records of the selected year
    cards,              \* the 5-tuple of criar_cards_csv
    tabela,             \* df_unificado of mostrar_tabela_unificada_csv
    graficos,           \* data behind the figures of criar_graficos_queimadas
    ranking_queimadas,  \* result of criar_ranking_queimadas
    figuras             \* what the run displayed of the other figures, of
                        \* the alert ranking, and its st.info and st.warning

vars == <<arquivos, cache, leituras, primeiro, erros, pc, execucao, alteracoes,
          df_alertas_raw, df_cnuc_raw, df_sigef_raw, df_queimadas_raw,
          df_alertas_vale, df_queimadas_vale, df_alertas_filtrado,
          df_queimadas_filtrado, cards, tabela, graficos, ranking_queimadas,
          figuras>>

(***************************************************************************)
(* Bounds of the model.                                                    *)
(***************************************************************************)
\* rows of the three tables of the first tab, taken together
MaxLinhas == 2

\* runs of the script in one session
MaxExecucoes == 2

\* changes of the files on disk during one session
MaxAlteracoes == 1

\* rows of a registry table handed to fig_distribuicao_sigef
MaxRegistros == 3

(***************************************************************************)
(* Text: characters, str.upper, str.strip, str.contains, isin.             *)
(***************************************************************************)
NaN == <<"<NaN>">>

Minusculas ==
    <<"a","b","c","d","e","f","g","h","i","j","k","l","m","n","o","p","q","r",
      "s","t","u","v","w","x","y","z","á","é","í","ó","ú","â","ê","ô","ã","õ",
      "ç","à">>

Maiusculas ==
    <<"A","B","C","D","E","F","G","H","I","J","K","L","M","N","O","P","Q","R",
      "S","T","U","V","W","X","Y","Z","Á","É","Í","Ó","Ú","Â","Ê","Ô","Ã","Õ",
      "Ç","À">>

Espacos == {" ", "\t"}

upper_char(c) ==
    IF \E i \in 1..Len(Minusculas) : Minusculas[i] = c
    THEN Maiusculas[CHOOSE i \in 1..Len(Minusculas) : Minusculas[i] = c]
    ELSE c

\* Series.str.upper(): element-wise, a missing value stays missing
str_upper(s) ==
    IF s = NaN THEN NaN ELSE [i \in 1..Len(s) |-> upper_char(s[i])]

RECURSIVE lstrip(_)
lstrip(s) ==
    IF Len(s) > 0 /\ Head(s) \in Espacos THEN lstrip(Tail(s)) ELSE s

RECURSIVE rstrip(_)
rstrip(s) ==
    IF Len(s) > 0 /\ s[Len(s)] \in Espacos
    THEN rstrip(SubSeq(s, 1, Len(s) - 1))
    ELSE s

\* Series.str.strip(): element-wise, a missing value stays missing
str_strip(s) ==
    IF s = NaN THEN NaN ELSE lstrip(rstrip(s))

\* Series.str.contains(pat, na=False) for a pattern without metacharacters
str_contains(s, pat) ==
    /\ s # NaN
    /\ \E k \in 0..(Len(s) - Len(pat)) :
          \A i \in 1..Len(pat) : s[k + i] = pat[i]

\* Series.isin(list): element-wise membership by equality
isin(v, lista) ==
    \E i \in 1..Len(lista) : lista[i] = v

(***************************************************************************)
(* The fixed lists of the seven municipalities.                            *)
(***************************************************************************)
municipios_vale ==
    << <<"A","d","r","i","a","n","ó","p","o","l","i","s">>,
       <<"B","o","c","a","i","ú","v","a"," ","d","o"," ","S","u","l">>,
       <<"C","e","r","r","o"," ","A","z","u","l">>,
       <<"D","o","u","t","o","r"," ","U","l","y","s","s","e","s">>,
       <<"I","t","a","p","e","r","u","ç","u">>,
       <<"R","i","o"," ","B","r","a","n","c","o"," ","d","o"," ","S","u","l">>,
       <<"T","u","n","a","s"," ","d","o"," ","P","a","r","a","n","á">> >>

municipios_vale_queimadas ==
    << <<"A","D","R","I","A","N","Ó","P","O","L","I","S">>,
       <<"B","O","C","A","I","Ú","V","A"," ","D","O"," ","S","U","L">>,
       <<"C","E","R","R","O"," ","A","Z","U","L">>,
       <<"D","O","U","T","O","R"," ","U","L","Y","S","S","E","S">>,
       <<"I","T","A","P","E","R","U","Ç","U">>,
       <<"R","I","O"," ","B","R","A","N","C","O"," ","D","O"," ","S","U","L">>,
       <<"T","U","N","A","S"," ","D","O"," ","P","A","R","A","N","Á">> >>

\* municipios_map: IBGE code -> name
municipios_map_cods ==
    <<4100103, 4102703, 4104659, 4107405, 4111258, 4122404, 4127700>>

municipios_map(cod) ==
    IF \E i \in 1..7 : municipios_map_cods[i] = cod
    THEN municipios_vale[CHOOSE i \in 1..7 : municipios_map_cods[i] = cod]
    ELSE NaN

(***************************************************************************)
(* Tables.                                                                 *)
(***************************************************************************)
\* pd.DataFrame()
DataFrameVazio == [colunas |-> {}, linhas |-> <<>>]

\* DataFrame.empty: no row or no column
empty(df) == Len(df.linhas) = 0 \/ df.colunas = {}

\* df[mask]: the rows satisfying the mask, in their order, same columns
Selecionar(df, Mascara(_)) ==
    [colunas |-> df.colunas, linhas |-> SelectSeq(df.linhas, Mascara)]

\* the accessor Series.str raises AttributeError on a column that holds no
\* text: read_csv gives such a column a numeric dtype
str_accessor_falha(df, col) ==
    \A i \in 1..Len(df.linhas) : df.linhas[i][col] = NaN

\* the dtype of a column is object when some field of it is text
dtype_object(df, col) ==
    \E i \in 1..Len(df.linhas) :
        /\ Len(df.linhas[i][col]) = 2
        /\ df.linhas[i][col][1] \in {"txt", "str"}

\* the type inference of read_csv: a column with a field that is no number
\* keeps all its fields as text
read_csv_dtypes(df) ==
    [colunas |-> df.colunas,
     linhas  |-> [i \in 1..Len(df.linhas) |->
                    [c \in df.colunas |->
                       IF /\ dtype_object(df, c)
                          /\ Len(df.linhas[i][c]) = 2
                          /\ df.linhas[i][c][1] = "num"
                       THEN <<"str", df.linhas[i][c][2]>>
                       ELSE df.linhas[i][c]]]]

\* pd.to_numeric(errors='coerce'): text that is no number becomes NaN
NumNaN == <<"nan", 0>>

to_numeric(c) == IF c[1] \in {"num", "str"} THEN <<"num", c[2]>> ELSE NumNaN

\* Series.sum(): NaN is skipped, the empty sum is 0
RECURSIVE soma(_)
soma(s) ==
    IF Len(s) = 0 THEN 0
    ELSE (IF Head(s)[1] = "num" THEN Head(s)[2] ELSE 0) + soma(Tail(s))

\* the cells of one column, coerced
coluna_num(df, col) ==
    [i \in 1..Len(df.linhas) |-> to_numeric(df.linhas[i][col])]

(***************************************************************************)
(* Municipality filters.                                                   *)
(***************************************************************************)
\* filtrar_alertas_vale_ribeira as it would be if it normalised the names
\* the way the fire-risk filter does
filtrar_alertas_normalizado(df_alertas) ==
    IF empty(df_alertas) \/ "MUNICIPIO" \notin df_alertas.colunas
    THEN DataFrameVazio
    ELSE Selecionar(df_alertas,
                    LAMBDA r : isin(str_strip(str_upper(r["MUNICIPIO"])),
                                    municipios_vale_queimadas))

\* filtrar_alertas_vale_ribeira as it would be if it returned its argument
\* when the column MUNICIPIO is absent
filtrar_alertas_sem_guarda(df_alertas) ==
    IF empty(df_alertas) THEN DataFrameVazio
    ELSE IF "MUNICIPIO" \notin df_alertas.colunas THEN df_alertas
    ELSE Selecionar(df_alertas,
                    LAMBDA r : isin(r["MUNICIPIO"], municipios_vale))

filtrar_alertas_vale_ribeira(df_alertas) ==
    IF empty(df_alertas) \/ "MUNICIPIO" \notin df_alertas.colunas
    THEN DataFrameVazio
    ELSE Selecionar(df_alertas,
                    LAMBDA r : isin(r["MUNICIPIO"], municipios_vale))

\* the normalisation of line 163
Municipio_norm(m) == str_strip(str_upper(m))

\* TRUE when line 163 raises (uncaught) instead of returning
filtrar_queimadas_falha(df_queimadas) ==
    /\ ~ empty(df_queimadas)
    /\ "Municipio" \in df_queimadas.colunas
    /\ str_accessor_falha(df_queimadas, "Municipio")

filtrar_queimadas_vale_ribeira(df_queimadas) ==
    IF empty(df_queimadas) \/ "Municipio" \notin df_queimadas.colunas
    THEN DataFrameVazio
    ELSE LET cols == df_queimadas.colunas \cup {"Municipio_norm"}
             com_norm ==
                 [i \in 1..Len(df_queimadas.linhas) |->
                    [c \in cols |->
                       IF c = "Municipio_norm"
                       THEN Municipio_norm(df_queimadas.linhas[i]["Municipio"])
                       ELSE df_queimadas.linhas[i][c]]]
         IN  [colunas |-> cols,
              linhas  |-> SelectSeq(com_norm,
                             LAMBDA r : isin(r["Municipio_norm"],
                                             municipios_vale_queimadas))]

(***************************************************************************)
(* Grouping and ordering, as pandas does them.                             *)
(***************************************************************************)
\* the characters in the order of their code points
OrdemChars ==
    <<"\t"," ","-","A","B","C","D","E","F","G","H","I","J","K","L","M","N",
      "O","P","Q","R","S","T","U","V","W","X","Y","Z","a","b","c","d","e",
      "f","g","h","i","j","k","l","m","n","o","p","q","r","s","t","u","v",
      "w","x","y","z","À","Á","Â","Ã","Ç","É","Ê","Í","Ó","Ô","Õ","Ú","à",
      "á","â","ã","ç","é","ê","í","ó","ô","õ","ú">>

ord(c) == CHOOSE i \in 1..Len(OrdemChars) : OrdemChars[i] = c

\* a < b for two texts
RECURSIVE menor_texto(_, _)
menor_texto(a, b) ==
    IF Len(b) = 0 THEN FALSE
    ELSE IF Len(a) = 0 THEN TRUE
    ELSE IF Head(a) = Head(b) THEN menor_texto(Tail(a), Tail(b))
    ELSE ord(Head(a)) < ord(Head(b))

\* a stable sort: x goes before the first element that must come after it
ordenar(s, Antes(_, _)) ==
    LET RECURSIVE inserir(_, _)
        inserir(x, t) ==
            IF Len(t) = 0 THEN <<x>>
            ELSE IF Antes(Head(t), x) \/ ~ Antes(x, Head(t))
                 THEN <<Head(t)>> \o inserir(x, Tail(t))
                 ELSE <<x>> \o t
        RECURSIVE ord_(_, _)
        ord_(resto, feito) ==
            IF Len(resto) = 0 THEN feito
            ELSE ord_(Tail(resto), inserir(Head(resto), feito))
    IN  ord_(s, <<>>)

\* the keys of groupby(col): the distinct values, NaN dropped, sorted
RECURSIVE chaves_ordenadas(_)
chaves_ordenadas(S) ==
    IF S = {} THEN <<>>
    ELSE LET m == CHOOSE x \in S : \A y \in S \ {x} : menor_texto(x, y)
         IN  <<m>> \o chaves_ordenadas(S \ {m})

RECURSIVE maximo(_)
maximo(s) ==
    IF Len(s) = 1 THEN Head(s)[2]
    ELSE LET m == maximo(Tail(s))
         IN  IF Head(s)[2] > m THEN Head(s)[2] ELSE m

\* the numbers of col in the rows whose chave is k
numeros_do_grupo(df, chave, col, k) ==
    SelectSeq([i \in 1..Len(df.linhas) |->
                  IF df.linhas[i][chave] = k
                  THEN df.linhas[i][col] ELSE NumNaN],
              LAMBDA c : c[1] = "num")

\* df.groupby(chave)[col]: per key, in key order, the sum, the count and the
\* maximum of the numbers of col (the mean is soma / quantidade)
groupby(df, chave, col) ==
    LET chaves ==
            chaves_ordenadas({df.linhas[i][chave] :
                                 i \in 1..Len(df.linhas)} \ {NaN})
    IN  [i \in 1..Len(chaves) |->
            LET nums == numeros_do_grupo(df, chave, col, chaves[i])
            IN  [chave      |-> chaves[i],
                 soma       |-> soma(nums),
                 quantidade |-> Len(nums),
                 maximo     |-> IF Len(nums) = 0 THEN 0 ELSE maximo(nums)]]

\* the column col coerced by pd.to_numeric(errors='coerce')
coagir(df, col) ==
    [colunas |-> df.colunas,
     linhas  |-> [i \in 1..Len(df.linhas) |->
                    [c \in df.colunas |->
                       IF c = col THEN to_numeric(df.linhas[i][c])
                       ELSE df.linhas[i][c]]]]

\* Series.between(lo, hi): inclusive, False on NaN
between(c, lo, hi) == c[1] = "num" /\ lo <= c[2] /\ c[2] <= hi

\* risco_valido as it would be without the upper end of the interval
risco_sem_teto(c) == c[1] = "num" /\ c[2] >= 0

\* RiscoFogo is in thousandths: the interval [0, 1] of the code
risco_valido(c) == between(c, 0, 1000)

\* nao_negativo as it would be if it kept every number
qualquer_numero(c) == c[1] = "num"

\* series >= 0: False on NaN
nao_negativo(c) == c[1] = "num" /\ c[2] >= 0

\* soma / n rounded to an integer, a tie to the even one (soma >= 0, n > 0)
round_div(a, n) ==
    LET q == a \div n
        r == a % n
    IN  IF 2 * r < n THEN q
        ELSE IF 2 * r > n THEN q + 1
        ELSE IF q % 2 = 0 THEN q ELSE q + 1

\* the mean of group g is below the mean of group h
media_menor(g, h) == g.soma * h.quantidade < h.soma * g.quantidade

\* nlargest_sort_values as it would be with head(n) in the place of
\* nlargest(n): the first n groups in the order of groupby
head_sort_values(grupos, n) ==
    LET primeiros == SubSeq(grupos, 1,
                            IF Len(grupos) < n THEN Len(grupos) ELSE n)
    IN  ordenar(primeiros, LAMBDA x, y : media_menor(x, y))

\* Series.nlargest(n) of the group means, then sort_values()
nlargest_sort_values(grupos, n) ==
    LET desc == ordenar(grupos, LAMBDA x, y : media_menor(y, x))
        maiores == SubSeq(desc, 1, IF Len(desc) < n THEN Len(desc) ELSE n)
    IN  ordenar(maiores, LAMBDA x, y : media_menor(x, y))

(***************************************************************************)
(* criar_graficos_queimadas: the data behind the four figures.             *)
(***************************************************************************)
\* pd.to_datetime(errors='coerce'): a date is <<"num", yyyymmdd>>, else NaT
to_datetime(c) == IF c[1] \in {"num", "str"} THEN <<"num", c[2]>> ELSE NumNaN

\* the calendar month of a date, as yyyymm
mes_de(d) == d \div 100

\* dt.to_period('M').astype(str): the label 'YYYY-MM' of a month
Digitos == <<"0", "1", "2", "3", "4", "5", "6", "7", "8", "9">>

periodo_str(m) ==
    LET ano == m \div 100
        mes == m % 100
        digito(n) == Digitos[(n % 10) + 1]
    IN  <<digito(ano \div 1000), digito(ano \div 100), digito(ano \div 10),
          digito(ano), "-", digito(mes \div 10), digito(mes)>>

proximo_mes(m) == IF m % 100 = 12 THEN m + 89 ELSE m + 1

RECURSIVE meses_entre(_, _)
meses_entre(a, b) ==
    IF a > b THEN <<>> ELSE <<a>> \o meses_entre(proximo_mes(a), b)

SemDados == [dados |-> FALSE, serie |-> <<>>]

\* figure 1: monthly mean of the risk
grafico_temporal(df) ==
    IF "DataHora" \in df.colunas /\ "RiscoFogo" \in df.colunas
    THEN LET com_data == [colunas |-> df.colunas,
                          linhas  |-> [i \in 1..Len(df.linhas) |->
                              [c \in df.colunas |->
                                 IF c = "DataHora"
                                 THEN to_datetime(df.linhas[i][c])
                                 ELSE df.linhas[i][c]]]]
             sem_na == Selecionar(com_data,
                           LAMBDA r : r["DataHora"][1] = "num"
                                      /\ r["RiscoFogo"][1] # "nan")
             df_temp == Selecionar(coagir(sem_na, "RiscoFogo"),
                           LAMBDA r : risco_valido(r["RiscoFogo"]))
             meses == {mes_de(df_temp.linhas[i]["DataHora"][2]) :
                          i \in 1..Len(df_temp.linhas)}
             primeiro_mes == CHOOSE m \in meses : \A o \in meses : m <= o
             ultimo_mes == CHOOSE m \in meses : \A o \in meses : m >= o
             do_mes(m) ==
                 SelectSeq([i \in 1..Len(df_temp.linhas) |->
                               IF mes_de(df_temp.linhas[i]["DataHora"][2]) = m
                               THEN df_temp.linhas[i]["RiscoFogo"]
                               ELSE NumNaN],
                           LAMBDA c : c[1] = "num")
             baldes == meses_entre(primeiro_mes, ultimo_mes)
         IN  IF ~ empty(df_temp)
             THEN [dados |-> TRUE,
                   serie |-> [i \in 1..Len(baldes) |->
                                [mes        |-> baldes[i],
                                 rotulo     |-> periodo_str(baldes[i]),
                                 soma       |-> soma(do_mes(baldes[i])),
                                 quantidade |-> Len(do_mes(baldes[i]))]]]
             ELSE SemDados
    ELSE SemDados

\* figure 2: the municipalities by mean risk
grafico_top_risco(df) ==
    IF "Municipio" \in df.colunas /\ "RiscoFogo" \in df.colunas
    THEN LET df_risco == Selecionar(coagir(df, "RiscoFogo"),
                            LAMBDA r : risco_valido(r["RiscoFogo"]))
         IN  IF ~ empty(df_risco)
             THEN [dados |-> TRUE,
                   serie |-> nlargest_sort_values(
                                 groupby(df_risco, "Municipio", "RiscoFogo"), 7)]
             ELSE SemDados
    ELSE SemDados

\* grafico_top_precip as it would be if it kept the negative precipitation
grafico_top_precip_sem_filtro(df) ==
    IF "Municipio" \in df.colunas /\ "Precipitacao" \in df.colunas
    THEN LET df_precip == Selecionar(coagir(df, "Precipitacao"),
                             LAMBDA r : r["Precipitacao"][1] = "num")
         IN  IF ~ empty(df_precip)
             THEN [dados |-> TRUE,
                   serie |-> nlargest_sort_values(
                                 groupby(df_precip, "Municipio",
                                         "Precipitacao"), 7)]
             ELSE SemDados
    ELSE SemDados

\* figure 3: the municipalities by mean precipitation
grafico_top_precip(df) ==
    IF "Municipio" \in df.colunas /\ "Precipitacao" \in df.colunas
    THEN LET df_precip == Selecionar(coagir(df, "Precipitacao"),
                             LAMBDA r : nao_negativo(r["Precipitacao"]))
         IN  IF ~ empty(df_precip)
             THEN [dados |-> TRUE,
                   serie |-> nlargest_sort_values(
                                 groupby(df_precip, "Municipio",
                                         "Precipitacao"), 7)]
             ELSE SemDados
    ELSE SemDados

map_cols == {"Latitude", "Longitude", "RiscoFogo", "Municipio"}

\* figure 4: the points of the map
grafico_mapa(df) ==
    IF map_cols \subseteq df.colunas
    THEN LET cols == map_cols \cup ({"Precipitacao"} \cap df.colunas)
             df_map0 == [colunas |-> cols,
                         linhas  |-> [i \in 1..Len(df.linhas) |->
                                        [c \in cols |-> df.linhas[i][c]]]]
             sem_na == Selecionar(df_map0,
                           LAMBDA r : /\ r["Latitude"][1] # "nan"
                                      /\ r["Longitude"][1] # "nan"
                                      /\ r["RiscoFogo"][1] # "nan"
                                      /\ r["Municipio"] # NaN)
             com_risco == Selecionar(coagir(sem_na, "RiscoFogo"),
                              LAMBDA r : risco_valido(r["RiscoFogo"]))
             df_map ==
                 IF "Precipitacao" \in cols
                 THEN Selecionar(coagir(com_risco, "Precipitacao"),
                          LAMBDA r : nao_negativo(r["Precipitacao"]))
                 ELSE [colunas |-> cols \cup {"Precipitacao"},
                       linhas  |-> [i \in 1..Len(com_risco.linhas) |->
                           [c \in cols \cup {"Precipitacao"} |->
                              IF c = "Precipitacao" THEN <<"num", 0>>
                              ELSE com_risco.linhas[i][c]]]]
         IN  IF ~ empty(df_map)
             THEN [dados |-> TRUE, serie |-> df_map.linhas]
             ELSE SemDados
    ELSE SemDados

SemGraficos ==
    [feito |-> FALSE, temporal |-> SemDados, top_risco |-> SemDados,
     top_precip |-> SemDados, mapa |-> SemDados]

criar_graficos_queimadas(df_queimadas) ==
    IF empty(df_queimadas)
    THEN [feito |-> TRUE, temporal |-> SemDados, top_risco |-> SemDados,
          top_precip |-> SemDados, mapa |-> SemDados]
    ELSE [feito      |-> TRUE,
          temporal   |-> grafico_temporal(df_queimadas),
          top_risco  |-> grafico_top_risco(df_queimadas),
          top_precip |-> grafico_top_precip(df_queimadas),
          mapa       |-> grafico_mapa(df_queimadas)]

(***************************************************************************)
(* criar_ranking_queimadas.                                                *)
(***************************************************************************)
Indicadores ==
    <<"Maior Risco de Fogo", "Maior Precipitação (evento)",
      "Máx. Dias Sem Chuva">>

\* groupby('Municipio')[col].agg(['mean', 'max', 'count']).round(casas): the
\* unit of the column is the last decimal kept, so only the mean is rounded
agg_mean_max_count(df, col) ==
    LET g == groupby(df, "Municipio", col)
    IN  [i \in 1..Len(g) |->
            [Municipio  |-> g[i].chave,
             media      |-> round_div(g[i].soma, g[i].quantidade),
             maximo     |-> g[i].maximo,
             quantidade |-> g[i].quantidade]]

\* criar_ranking_queimadas as it would be without its sort_values: the
\* groups in the order of groupby
criar_ranking_sem_ordem(df_queimadas, indicador) ==
    LET col == CASE indicador = "Maior Risco de Fogo" -> "RiscoFogo"
                 [] indicador = "Maior Precipitação (evento)" -> "Precipitacao"
                 [] indicador = "Máx. Dias Sem Chuva" -> "DiaSemChuva"
                 [] OTHER -> ""
    IN  IF \/ empty(df_queimadas)
           \/ "Municipio" \notin df_queimadas.colunas
           \/ col \notin df_queimadas.colunas
        THEN <<>>
        ELSE agg_mean_max_count(
                 Selecionar(coagir(df_queimadas, col),
                            LAMBDA r : IF col = "RiscoFogo"
                                       THEN risco_valido(r[col])
                                       ELSE nao_negativo(r[col])),
                 col)

\* the rows of the ranking; an empty sequence is an empty DataFrame
criar_ranking_queimadas(df_queimadas, indicador) ==
    IF empty(df_queimadas) \/ "Municipio" \notin df_queimadas.colunas
    THEN <<>>
    ELSE IF indicador = "Maior Risco de Fogo"
    THEN IF "RiscoFogo" \notin df_queimadas.colunas THEN <<>>
         ELSE LET df == Selecionar(coagir(df_queimadas, "RiscoFogo"),
                            LAMBDA r : risco_valido(r["RiscoFogo"]))
              IN  ordenar(agg_mean_max_count(df, "RiscoFogo"),
                          LAMBDA x, y : x.media > y.media)
    ELSE IF indicador = "Maior Precipitação (evento)"
    THEN IF "Precipitacao" \notin df_queimadas.colunas THEN <<>>
         ELSE LET df == Selecionar(coagir(df_queimadas, "Precipitacao"),
                            LAMBDA r : nao_negativo(r["Precipitacao"]))
              IN  ordenar(agg_mean_max_count(df, "Precipitacao"),
                          LAMBDA x, y : x.maximo > y.maximo)
    ELSE IF indicador = "Máx. Dias Sem Chuva"
    THEN IF "DiaSemChuva" \notin df_queimadas.colunas THEN <<>>
         ELSE LET df == Selecionar(coagir(df_queimadas, "DiaSemChuva"),
                            LAMBDA r : nao_negativo(r["DiaSemChuva"]))
              IN  ordenar(agg_mean_max_count(df, "DiaSemChuva"),
                          LAMBDA x, y : x.maximo > y.maximo)
    ELSE <<>>

SemRanking == [feito |-> FALSE, indicador |-> "", linhas |-> <<>>]

(***************************************************************************)
(* Summary cards (criar_cards_csv).  Areas are in hundredths of a hectare. *)
(***************************************************************************)
total_municipios == 7

\* the tuple of the except branch
cards_padrao == <<0, 0, 7, 0, 0>>

\* TRUE when a statement of the try block raises: none does on a table that
\* read_csv produced (to_numeric coerces, sum skips NaN, isin compares)
criar_cards_falha(df_cnuc, df_sigef, df_alertas) == FALSE

\* criar_cards_csv as it would be if the alerts were counted whether or not
\* the table has the column AREAHA
criar_cards_sem_coluna(df_cnuc, df_sigef, df_alertas) ==
    LET vale == filtrar_alertas_vale_ribeira(df_alertas)
    IN  <<IF ~ empty(vale) /\ "AREAHA" \in df_alertas.colunas
          THEN soma(coluna_num(vale, "AREAHA")) ELSE 0,
          IF ~ empty(df_sigef) THEN Len(df_sigef.linhas) ELSE 0,
          total_municipios,
          Len(vale.linhas),
          IF ~ empty(df_cnuc) /\ "ha_total" \in df_cnuc.colunas
          THEN soma(coluna_num(df_cnuc, "ha_total")) ELSE 0>>

\* criar_cards_csv as it would be if the alert area were summed over the
\* table as loaded, without the filter of line 379
criar_cards_sem_filtro(df_cnuc, df_sigef, df_alertas) ==
    LET vale == filtrar_alertas_vale_ribeira(df_alertas)
        com_alertas ==
            /\ ~ empty(df_alertas)
            /\ "AREAHA" \in df_alertas.colunas
            /\ ~ empty(vale)
    IN  <<IF com_alertas THEN soma(coluna_num(df_alertas, "AREAHA")) ELSE 0,
          IF ~ empty(df_sigef) THEN Len(df_sigef.linhas) ELSE 0,
          total_municipios,
          IF com_alertas THEN Len(vale.linhas) ELSE 0,
          IF ~ empty(df_cnuc) /\ "ha_total" \in df_cnuc.colunas
          THEN soma(coluna_num(df_cnuc, "ha_total")) ELSE 0>>

criar_cards_csv(df_cnuc, df_sigef, df_alertas) ==
    IF criar_cards_falha(df_cnuc, df_sigef, df_alertas) THEN cards_padrao
    ELSE
    LET area_total_ucs_ha ==
            IF ~ empty(df_cnuc) /\ "ha_total" \in df_cnuc.colunas
            THEN soma(coluna_num(df_cnuc, "ha_total"))
            ELSE 0
        vale == filtrar_alertas_vale_ribeira(df_alertas)
        com_alertas ==
            /\ ~ empty(df_alertas)
            /\ "AREAHA" \in df_alertas.colunas
            /\ ~ empty(vale)
        contagem_alerta == IF com_alertas THEN Len(vale.linhas) ELSE 0
        area_alertas_ha ==
            IF com_alertas THEN soma(coluna_num(vale, "AREAHA")) ELSE 0
        contagem_sigef ==
            IF ~ empty(df_sigef) THEN Len(df_sigef.linhas) ELSE 0
    IN  <<area_alertas_ha, contagem_sigef, total_municipios,
          contagem_alerta, area_total_ucs_ha>>

(***************************************************************************)
(* Unified table (mostrar_tabela_unificada_csv).                           *)
(***************************************************************************)
TOTAL == <<"T","O","T","A","L">>

\* Series.round(1) of a value in hundredths: to the nearest tenth, a tie to
\* the even tenth
round1(x) ==
    LET q == x \div 10
        r == x % 10
    IN  IF r < 5 THEN 10 * q
        ELSE IF r > 5 THEN 10 * (q + 1)
        ELSE IF q % 2 = 0 THEN 10 * q ELSE 10 * (q + 1)

\* alertas_data.get(municipio, 0)
alertas_data(df_alertas, municipio) ==
    IF ~ empty(df_alertas) /\ "MUNICIPIO" \in df_alertas.colunas
    THEN LET vale == filtrar_alertas_vale_ribeira(df_alertas)
             dados_mun ==
                 Selecionar(vale, LAMBDA r : r["MUNICIPIO"] = municipio)
         IN  IF ~ empty(dados_mun) /\ "AREAHA" \in dados_mun.colunas
             THEN soma(coluna_num(dados_mun, "AREAHA"))
             ELSE 0
    ELSE 0

\* the code of a municipality, by the reverse lookup of lines 510-514
cod_mun(municipio) ==
    IF \E i \in 1..7 : municipios_map(municipios_map_cods[i]) = municipio
    THEN municipios_map_cods[
             CHOOSE i \in 1..7 :
                 /\ municipios_map(municipios_map_cods[i]) = municipio
                 /\ \A j \in 1..(i - 1) :
                        municipios_map(municipios_map_cods[j]) # municipio]
    ELSE 0

\* sigef_data as it would be if it counted the registry rows of every code
sigef_data_sem_codigo(df_sigef, municipio) ==
    IF ~ empty(df_sigef) /\ "municipio_" \in df_sigef.colunas
    THEN Len(df_sigef.linhas)
    ELSE 0

\* sigef_data.get(municipio, 0)
sigef_data(df_sigef, municipio) ==
    IF ~ empty(df_sigef) /\ "municipio_" \in df_sigef.colunas
    THEN IF cod_mun(municipio) # 0
         THEN Len(SelectSeq(df_sigef.linhas,
                  LAMBDA r : r["municipio_"] = <<"num", cod_mun(municipio)>>))
         ELSE 0
    ELSE 0

\* cnuc_data as it would be if the free text had to be the name itself
cnuc_data_igual(df_cnuc, municipio) ==
    IF ~ empty(df_cnuc) /\ "municipio" \in df_cnuc.colunas
    THEN LET dados_mun ==
                 Selecionar(df_cnuc,
                     LAMBDA r : str_upper(r["municipio"]) = str_upper(municipio))
         IN  IF ~ empty(dados_mun) /\ "ha_total" \in dados_mun.colunas
             THEN soma(coluna_num(dados_mun, "ha_total"))
             ELSE 0
    ELSE 0

\* cnuc_data.get(municipio, 0)
cnuc_data(df_cnuc, municipio) ==
    IF ~ empty(df_cnuc) /\ "municipio" \in df_cnuc.colunas
    THEN LET municipio_normalizado == str_upper(municipio)
             dados_mun ==
                 Selecionar(df_cnuc,
                     LAMBDA r : str_contains(str_upper(r["municipio"]),
                                             municipio_normalizado))
         IN  IF ~ empty(dados_mun) /\ "ha_total" \in dados_mun.colunas
             THEN soma(coluna_num(dados_mun, "ha_total"))
             ELSE 0
    ELSE 0

\* TRUE when the try block raises: .str on a municipio column without text
mostrar_tabela_falha(df_alertas, df_sigef, df_cnuc) ==
    /\ ~ empty(df_cnuc)
    /\ "municipio" \in df_cnuc.colunas
    /\ str_accessor_falha(df_cnuc, "municipio")

\* the table as it would be if the rounding came before the TOTAL row
df_unificado_arredondado_antes(df_alertas, df_sigef, df_cnuc) ==
    LET sete ==
            [i \in 1..Len(municipios_vale) |->
                [indice  |-> municipios_vale[i],
                 alertas |-> round1(alertas_data(df_alertas,
                                                 municipios_vale[i])),
                 sigef   |-> sigef_data(df_sigef, municipios_vale[i]),
                 cnuc    |-> round1(cnuc_data(df_cnuc, municipios_vale[i]))]]
        RECURSIVE somar(_, _)
        somar(s, col) ==
            IF Len(s) = 0 THEN 0 ELSE Head(s)[col] + somar(Tail(s), col)
    IN  Append(sete, [indice  |-> TOTAL,
                      alertas |-> somar(sete, "alertas"),
                      sigef   |-> somar(sete, "sigef"),
                      cnuc    |-> somar(sete, "cnuc")])

\* the table as it would be with rows only for the municipalities that have
\* an alert, a registry record or a conservation unit
df_unificado_so_com_dados(df_alertas, df_sigef, df_cnuc) ==
    LET todos ==
            [i \in 1..Len(municipios_vale) |->
                [indice  |-> municipios_vale[i],
                 alertas |-> alertas_data(df_alertas, municipios_vale[i]),
                 sigef   |-> sigef_data(df_sigef, municipios_vale[i]),
                 cnuc    |-> cnuc_data(df_cnuc, municipios_vale[i])]]
        com_dados ==
            SelectSeq(todos, LAMBDA l : l.alertas + l.sigef + l.cnuc # 0)
        RECURSIVE somar(_, _)
        somar(s, col) ==
            IF Len(s) = 0 THEN 0 ELSE Head(s)[col] + somar(Tail(s), col)
    IN  Append(com_dados, [indice  |-> TOTAL,
                           alertas |-> somar(com_dados, "alertas"),
                           sigef   |-> somar(com_dados, "sigef"),
                           cnuc    |-> somar(com_dados, "cnuc")])

\* df_unificado after line 539: seven rows and the appended TOTAL row
df_unificado_com_total(df_alertas, df_sigef, df_cnuc) ==
    LET sete ==
            [i \in 1..Len(municipios_vale) |->
                [indice  |-> municipios_vale[i],
                 alertas |-> alertas_data(df_alertas, municipios_vale[i]),
                 sigef   |-> sigef_data(df_sigef, municipios_vale[i]),
                 cnuc    |-> cnuc_data(df_cnuc, municipios_vale[i])]]
        RECURSIVE somar(_, _)
        somar(s, col) ==
            IF Len(s) = 0 THEN 0 ELSE Head(s)[col] + somar(Tail(s), col)
        totais ==
            [indice  |-> TOTAL,
             alertas |-> somar(sete, "alertas"),
             sigef   |-> somar(sete, "sigef"),
             cnuc    |-> somar(sete, "cnuc")]
    IN  Append(sete, totais)

\* df_unificado as handed to st.dataframe, after the rounding of lines 541-542
df_unificado(df_alertas, df_sigef, df_cnuc) ==
    LET t == df_unificado_com_total(df_alertas, df_sigef, df_cnuc)
    IN  [i \in 1..Len(t) |->
            [indice  |-> t[i].indice,
             alertas |-> round1(t[i].alertas),
             sigef   |-> t[i].sigef,
             cnuc    |-> round1(t[i].cnuc)]]

\* nothing was handed to st.dataframe
SemTabela == [mostrada |-> FALSE, linhas |-> <<>>]

mostrar_tabela_unificada_csv(df_alertas, df_sigef, df_cnuc) ==
    IF mostrar_tabela_falha(df_alertas, df_sigef, df_cnuc)
    THEN SemTabela
    ELSE [mostrada |-> TRUE,
          linhas   |-> df_unificado(df_alertas, df_sigef, df_cnuc)]

(***************************************************************************)
(* Figures of the first tab: fig_distribuicao_sigef, fig_sobreposicoes_csv. *)
(* A sort of pandas is taken as stable: on the few rows of a table here    *)
(* its quicksort is an insertion sort.                                     *)
(***************************************************************************)
\* the map of lines 438-446
municipios_map_sigef(cod) ==
    CASE cod = 4100103 -> municipios_vale[1]
      [] cod = 4102703 -> municipios_vale[2]
      [] cod = 4104659 -> municipios_vale[3]
      [] cod = 4107405 -> municipios_vale[4]
      [] cod = 4111258 -> municipios_vale[5]
      [] cod = 4122404 -> municipios_vale[6]
      [] cod = 4127700 -> municipios_vale[7]
      [] OTHER         -> NaN

\* the distinct values of a sequence, in the order of their first occurrence
RECURSIVE unique(_)
unique(s) ==
    IF Len(s) = 0 THEN <<>>
    ELSE LET u == unique(SubSeq(s, 1, Len(s) - 1))
         IN  IF \E i \in 1..Len(u) : u[i] = s[Len(s)] THEN u
             ELSE Append(u, s[Len(s)])

\* Series.value_counts(): the values but NaN with their counts, the most
\* frequent first
value_counts(df, col) ==
    LET valores == SelectSeq([i \in 1..Len(df.linhas) |-> df.linhas[i][col]],
                             LAMBDA c : c # NumNaN /\ c # NaN)
        distintos == unique(valores)
        contados ==
            [i \in 1..Len(distintos) |->
                [valor      |-> distintos[i],
                 quantidade |-> Len(SelectSeq(valores,
                                    LAMBDA c : c = distintos[i]))]]
    IN  ordenar(contados, LAMBDA x, y : x.quantidade > y.quantidade)

\* fig_distribuicao_sigef as it would be without its sort_values: the bars
\* in the order of value_counts, the most frequent first
fig_distribuicao_sem_ordem(df_sigef) ==
    IF empty(df_sigef) \/ "municipio_" \notin df_sigef.colunas
    THEN SemDados
    ELSE LET contagem == value_counts(df_sigef, "municipio_")
             df_count ==
                 [i \in 1..Len(contagem) |->
                     [municipio_cod |-> contagem[i].valor,
                      quantidade    |-> contagem[i].quantidade,
                      municipio     |->
                          IF contagem[i].valor[1] = "num"
                          THEN municipios_map_sigef(contagem[i].valor[2])
                          ELSE NaN]]
         IN  [dados |-> TRUE,
              serie |-> SelectSeq(df_count, LAMBDA l : l.municipio # NaN)]

\* the bars of the figure, first to last
fig_distribuicao_sigef(df_sigef) ==
    IF empty(df_sigef) \/ "municipio_" \notin df_sigef.colunas
    THEN SemDados
    ELSE LET contagem == value_counts(df_sigef, "municipio_")
             df_count ==
                 [i \in 1..Len(contagem) |->
                     [municipio_cod |-> contagem[i].valor,
                      quantidade    |-> contagem[i].quantidade,
                      municipio     |->
                          IF contagem[i].valor[1] = "num"
                          THEN municipios_map_sigef(contagem[i].valor[2])
                          ELSE NaN]]
             mapeados == SelectSeq(df_count, LAMBDA l : l.municipio # NaN)
         IN  [dados |-> TRUE,
              serie |-> ordenar(mapeados,
                                LAMBDA x, y : x.quantidade < y.quantidade)]

\* the bars of the conservation units, the largest area first, NaN last
fig_sobreposicoes_csv(df_cnuc) ==
    IF empty(df_cnuc) \/ "nome_uc" \notin df_cnuc.colunas
    THEN SemDados
    ELSE LET df == [i \in 1..Len(df_cnuc.linhas) |->
                       [nome_uc |-> df_cnuc.linhas[i]["nome_uc"],
                        area_ha |-> IF "ha_total" \in df_cnuc.colunas
                                    THEN to_numeric(
                                             df_cnuc.linhas[i]["ha_total"])
                                    ELSE <<"num", 0>>]]
         IN  [dados |-> TRUE,
              serie |-> ordenar(df,
                            LAMBDA x, y :
                                /\ x.area_ha[1] = "num"
                                /\ (y.area_ha[1] = "num"
                                       => x.area_ha[2] > y.area_ha[2]))]

(***************************************************************************)
(* Figures and ranking of the second tab ("Desmatamento").                 *)
(***************************************************************************)
\* df_alertas[df_alertas['MUNICIPIO'].isin(municipios_vale)], lines 639, 699
df_vale_de(df_alertas) ==
    Selecionar(df_alertas, LAMBDA r : isin(r["MUNICIPIO"], municipios_vale))

\* the function raises: KeyError in the aggregation of lines 644-646 when
\* the column AREAHA is absent; TypeError when AREAHA was read as text, for
\* the sum of a group is then a text, which line 654 cannot order among the
\* zeros of the municipalities without alerts nor line 664 compare with 0
fig_desmatamento_municipal_falha(df_alertas) ==
    /\ ~ empty(df_alertas)
    /\ "MUNICIPIO" \in df_alertas.colunas
    /\ ~ empty(df_vale_de(df_alertas))
    /\ \/ "AREAHA" \notin df_alertas.colunas
       \/ dtype_object(df_vale_de(df_alertas), "AREAHA")

\* the bars of the seven municipalities, the largest area first; areas in
\* hundredths of a hectare, rounded to one decimal
fig_desmatamento_municipal_csv(df_alertas) ==
    IF empty(df_alertas) \/ "MUNICIPIO" \notin df_alertas.colunas
    THEN SemDados
    ELSE IF empty(df_vale_de(df_alertas))
    THEN SemDados
    ELSE LET df_mun == groupby(df_vale_de(df_alertas), "MUNICIPIO", "AREAHA")
             do_municipio(m) == SelectSeq(df_mun, LAMBDA g : g.chave = m)
             todos ==
                 [i \in 1..Len(municipios_vale) |->
                     LET g == do_municipio(municipios_vale[i])
                     IN  [MUNICIPIO     |-> municipios_vale[i],
                          Quantidade    |-> IF Len(g) = 0 THEN 0
                                            ELSE g[1].quantidade,
                          Area_Total_ha |-> IF Len(g) = 0 THEN 0
                                            ELSE round1(g[1].soma)]]
         IN  [dados |-> TRUE,
              serie |-> ordenar(todos,
                            LAMBDA x, y : x.Area_Total_ha > y.Area_Total_ha)]

\* the points of the map: one per municipality with alerts
fig_mapa_alertas_desmatamento(df_alertas) ==
    IF \/ empty(df_alertas)
       \/ "MUNICIPIO" \notin df_alertas.colunas
       \/ "AREAHA" \notin df_alertas.colunas
    THEN SemDados
    ELSE IF empty(df_vale_de(df_alertas))
    THEN SemDados
    ELSE LET df_mun == groupby(coagir(df_vale_de(df_alertas), "AREAHA"),
                               "MUNICIPIO", "AREAHA")
         IN  [dados |-> TRUE,
              serie |-> [i \in 1..Len(df_mun) |->
                            [MUNICIPIO   |-> df_mun[i].chave,
                             AREA_TOTAL  |-> df_mun[i].soma,
                             QTD_ALERTAS |->
                                 Len(Selecionar(df_vale_de(df_alertas),
                                     LAMBDA r : r["MUNICIPIO"] =
                                                df_mun[i].chave).linhas)]]]

\* line 592 raises KeyError when the column AREAHA is absent
fig_desmatamento_temporal_falha(df_alertas) ==
    /\ ~ empty(df_alertas)
    /\ "DATADETEC" \in df_alertas.colunas
    /\ "AREAHA" \notin df_alertas.colunas

\* fig_desmatamento_temporal_csv as it would be without resample('ME'): one
\* point per row of valid date and area, in the order of the rows
fig_desmatamento_temporal_sem_resample(df_alertas) ==
    IF empty(df_alertas) \/ "DATADETEC" \notin df_alertas.colunas
    THEN SemDados
    ELSE LET validas ==
                 SelectSeq(df_alertas.linhas,
                           LAMBDA r : to_datetime(r["DATADETEC"])[1] = "num"
                                      /\ to_numeric(r["AREAHA"])[1] = "num")
         IN  IF validas = <<>> THEN SemDados
             ELSE [dados |-> TRUE,
                   serie |-> [i \in 1..Len(validas) |->
                       [DATADETEC |->
                            periodo_str(mes_de(validas[i]["DATADETEC"][2])),
                        mes       |-> mes_de(validas[i]["DATADETEC"][2]),
                        AREAHA    |-> to_numeric(validas[i]["AREAHA"])[2]]]]

\* the monthly series of the alert areas
fig_desmatamento_temporal_csv(df_alertas) ==
    IF empty(df_alertas) \/ "DATADETEC" \notin df_alertas.colunas
    THEN SemDados
    ELSE LET convertido ==
                 [colunas |-> df_alertas.colunas,
                  linhas  |-> [i \in 1..Len(df_alertas.linhas) |->
                      [c \in df_alertas.colunas |->
                         IF c = "DATADETEC"
                         THEN to_datetime(df_alertas.linhas[i][c])
                         ELSE IF c = "AREAHA"
                         THEN to_numeric(df_alertas.linhas[i][c])
                         ELSE df_alertas.linhas[i][c]]]]
             df_valid_dates ==
                 Selecionar(convertido,
                            LAMBDA r : r["DATADETEC"][1] = "num"
                                       /\ r["AREAHA"][1] = "num")
             meses == {mes_de(df_valid_dates.linhas[i]["DATADETEC"][2]) :
                          i \in 1..Len(df_valid_dates.linhas)}
             menor == CHOOSE m \in meses : \A n \in meses : m <= n
             maior == CHOOSE m \in meses : \A n \in meses : n <= m
             baldes == meses_entre(menor, maior)
             do_mes(m) ==
                 SelectSeq([i \in 1..Len(df_valid_dates.linhas) |->
                               df_valid_dates.linhas[i]],
                           LAMBDA r : mes_de(r["DATADETEC"][2]) = m)
         IN  IF empty(df_valid_dates) THEN SemDados
             ELSE [dados |-> TRUE,
                   serie |-> [i \in 1..Len(baldes) |->
                       [DATADETEC |-> periodo_str(baldes[i]),
                        mes       |-> baldes[i],
                        AREAHA    |->
                            soma([j \in 1..Len(do_mes(baldes[i])) |->
                                     do_mes(baldes[i])[j]["AREAHA"]])]]]

\* the smallest and the largest of the years of a group, NaN when it has none
ano_extremo(anos, Melhor(_, _)) ==
    IF anos = {} THEN NumNaN
    ELSE <<"num", CHOOSE a \in anos : \A b \in anos : Melhor(a, b)>>

\* ranking_municipios as it would be without its sort_values: the groups
\* numbered in the order of groupby
ranking_municipios_sem_ordem(df) ==
    LET grupos == groupby(df, "MUNICIPIO", "AREAHA")
        anos(m) == {df.linhas[i]["ANODETEC"][2] :
                       i \in {j \in 1..Len(df.linhas) :
                                 /\ df.linhas[j]["MUNICIPIO"] = m
                                 /\ df.linhas[j]["ANODETEC"][1]
                                        \in {"num", "str"}}}
        numerado ==
            [i \in 1..Len(grupos) |->
                [Posicao    |-> i,
                 MUNICIPIO  |-> grupos[i].chave,
                 Area_Total |-> grupos[i].soma,
                 Qtd        |-> grupos[i].quantidade,
                 Area_Media |-> IF grupos[i].quantidade = 0 THEN NumNaN
                                ELSE <<"num", round_div(grupos[i].soma,
                                                  grupos[i].quantidade)>>,
                 Ano_Min    |-> ano_extremo(anos(grupos[i].chave),
                                            LAMBDA a, b : a <= b),
                 Ano_Max    |-> ano_extremo(anos(grupos[i].chave),
                                            LAMBDA a, b : a >= b)]]
    IN  SubSeq(numerado, 1, IF Len(numerado) < 10 THEN Len(numerado) ELSE 10)

\* lines 1039-1052: the ranking of the municipalities by alert area; the
\* argument is the table after the coercion of line 1039
ranking_municipios(df) ==
    LET grupos == groupby(df, "MUNICIPIO", "AREAHA")
        anos(m) == {df.linhas[i]["ANODETEC"][2] :
                       i \in {j \in 1..Len(df.linhas) :
                                 /\ df.linhas[j]["MUNICIPIO"] = m
                                 /\ df.linhas[j]["ANODETEC"][1]
                                        \in {"num", "str"}}}
        linhas ==
            [i \in 1..Len(grupos) |->
                [MUNICIPIO  |-> grupos[i].chave,
                 Area_Total |-> grupos[i].soma,
                 Qtd        |-> grupos[i].quantidade,
                 Area_Media |-> IF grupos[i].quantidade = 0 THEN NumNaN
                                ELSE <<"num", round_div(grupos[i].soma,
                                                  grupos[i].quantidade)>>,
                 Ano_Min    |-> ano_extremo(anos(grupos[i].chave),
                                            LAMBDA a, b : a <= b),
                 Ano_Max    |-> ano_extremo(anos(grupos[i].chave),
                                            LAMBDA a, b : a >= b)]]
        ordenado == ordenar(linhas,
                            LAMBDA x, y : x.Area_Total > y.Area_Total)
        numerado == [i \in 1..Len(ordenado) |->
                        [Posicao    |-> i,
                         MUNICIPIO  |-> ordenado[i].MUNICIPIO,
                         Area_Total |-> ordenado[i].Area_Total,
                         Qtd        |-> ordenado[i].Qtd,
                         Area_Media |-> ordenado[i].Area_Media,
                         Ano_Min    |-> ordenado[i].Ano_Min,
                         Ano_Max    |-> ordenado[i].Ano_Max]]
    IN  SubSeq(numerado, 1, IF Len(numerado) < 10 THEN Len(numerado) ELSE 10)

(***************************************************************************)
(* Steps of the script: first tab ("Sobreposições").                       *)
(***************************************************************************)
\* not yet computed in this run
SemCards == <<>>

\* a figure or table not yet reached by this run
SemFigura == [estado |-> "", serie |-> <<>>]

SemFiguras ==
    [sigef      |-> SemFigura,
     ucs        |-> SemFigura,
     uc_alertas |-> SemFigura,
     municipal  |-> SemFigura,
     mapa       |-> SemFigura,
     temporal   |-> SemFigura,
     ranking    |-> SemFigura,
     avisos     |-> {}]

\* st.plotly_chart or st.dataframe of a result
exibir(fig) == [estado |-> "exibido", serie |-> fig.serie]

\* the pattern `if fig and fig.data: st.plotly_chart(fig) else: st.info(..)`
exibir_se_dados(fig) ==
    IF fig.dados THEN exibir(fig) ELSE [estado |-> "info", serie |-> <<>>]

\* st.warning in place of the figure
substituir_por_aviso == [estado |-> "warning", serie |-> <<>>]

\* nothing is displayed in the place of the figure
nada_exibido == [estado |-> "nada", serie |-> <<>>]

\* line 782
CriarCards ==
    /\ pc = "cards"
    /\ cards' = criar_cards_csv(df_cnuc_raw, df_sigef_raw, df_alertas_raw)
    /\ erros' = IF criar_cards_falha(df_cnuc_raw, df_sigef_raw, df_alertas_raw)
                THEN erros \cup {"Erro ao calcular indicadores"}
                ELSE erros
    /\ pc' = "sigef"
    /\ UNCHANGED <<arquivos, cache, leituras, primeiro, execucao, alteracoes,
                   df_alertas_raw, df_cnuc_raw, df_sigef_raw, df_queimadas_raw,
                   df_alertas_vale, df_queimadas_vale, df_alertas_filtrado,
                   df_queimadas_filtrado, tabela, graficos, ranking_queimadas,
                   figuras>>

\* lines 818-836
FigDistribuicaoSigef ==
    /\ pc = "sigef"
    /\ figuras' = [figuras EXCEPT !.sigef =
                      IF ~ empty(df_sigef_raw)
                      THEN exibir(fig_distribuicao_sigef(df_sigef_raw))
                      ELSE substituir_por_aviso]
    /\ pc' = "ucs"
    /\ UNCHANGED <<arquivos, cache, leituras, primeiro, erros, execucao,
                   alteracoes, df_alertas_raw, df_cnuc_raw, df_sigef_raw,
                   df_queimadas_raw, df_alertas_vale, df_queimadas_vale,
                   df_alertas_filtrado, df_queimadas_filtrado, cards, tabela,
                   graficos, ranking_queimadas>>

\* lines 838-856
FigSobreposicoes ==
    /\ pc = "ucs"
    /\ figuras' = [figuras EXCEPT !.ucs =
                      IF ~ empty(df_cnuc_raw)
                      THEN exibir(fig_sobreposicoes_csv(df_cnuc_raw))
                      ELSE substituir_por_aviso]
    /\ pc' = "tabela"
    /\ UNCHANGED <<arquivos, cache, leituras, primeiro, erros, execucao,
                   alteracoes, df_alertas_raw, df_cnuc_raw, df_sigef_raw,
                   df_queimadas_raw, df_alertas_vale, df_queimadas_vale,
                   df_alertas_filtrado, df_queimadas_filtrado, cards, tabela,
                   graficos, ranking_queimadas>>

\* line 863
MostrarTabela ==
    /\ pc = "tabela"
    /\ tabela' = mostrar_tabela_unificada_csv(df_alertas_raw, df_sigef_raw,
                                              df_cnuc_raw)
    /\ erros' = IF mostrar_tabela_falha(df_alertas_raw, df_sigef_raw,
                                        df_cnuc_raw)
                THEN erros \cup {"Erro ao criar tabela unificada"}
                ELSE erros
    /\ pc' = "desmatamento"
    /\ UNCHANGED <<arquivos, cache, leituras, primeiro, execucao, alteracoes,
                   df_alertas_raw, df_cnuc_raw, df_sigef_raw, df_queimadas_raw,
                   df_alertas_vale, df_queimadas_vale, df_alertas_filtrado,
                   df_queimadas_filtrado, cards, graficos, ranking_queimadas,
                   figuras>>

(***************************************************************************)
(* Input tables of the first tab.                                          *)
(***************************************************************************)
Curitiba == <<"C","u","r","i","t","i","b","a">>

CerroAzulEAdrianopolis ==
    <<"C","e","r","r","o"," ","A","z","u","l"," ","e"," ",
      "A","d","r","i","a","n","ó","p","o","l","i","s">>

\* sequences of at most n elements of S
SeqAte(S, n) == UNION {[1..k -> S] : k \in 0..n}

\* the tables with the columns cols and exactly n rows of Linhas; with no row
\* the table is a header alone, or pd.DataFrame() when the load failed
TabelasDe(cols, Linhas, n) ==
    {read_csv_dtypes([colunas |-> cols, linhas |-> l]) :
        l \in [1..n -> Linhas]}
        \cup (IF n = 0 THEN {DataFrameVazio} ELSE {})

NomesAlertas == {municipios_vale[1], municipios_vale[3], Curitiba}

AreasAlertas == {<<"num", 4>>, <<"num", 1250>>, <<"txt", 0>>}

ColunasAlertas == {{"MUNICIPIO", "AREAHA"}, {"MUNICIPIO"}, {"AREAHA"}}

LinhasAlertas(cols) ==
    {[c \in cols |-> IF c = "MUNICIPIO" THEN m ELSE a] :
        m \in NomesAlertas, a \in AreasAlertas}

CodigosSigef == {<<"num", 4100103>>, <<"num", 4104659>>, <<"num", 4106902>>}

ColunasSigef == {{"municipio_"}, {"parcela_co"}}

LinhasSigef(cols) ==
    {[c \in cols |-> IF c = "municipio_" THEN k ELSE <<"num", 1>>] :
        k \in CodigosSigef}

TextosCnuc == {municipios_vale[3], CerroAzulEAdrianopolis, Curitiba, NaN}

AreasCnuc == {<<"num", 4>>, <<"num", 1250>>}

ColunasCnuc == {{"municipio", "ha_total"}, {"municipio"}, {"ha_total"}}

LinhasCnuc(cols) ==
    {[c \in cols |-> IF c = "municipio" THEN m ELSE a] :
        m \in TextosCnuc, a \in AreasCnuc}

\* values of the variables a specification does not use
Parado ==
    /\ arquivos = <<>>
    /\ cache = <<>>
    /\ leituras = <<>>
    /\ primeiro = <<>>
    /\ erros = {}
    /\ execucao = 1
    /\ alteracoes = 0

SemSaidas ==
    /\ df_alertas_vale = DataFrameVazio
    /\ df_queimadas_vale = DataFrameVazio
    /\ df_alertas_filtrado = DataFrameVazio
    /\ df_queimadas_filtrado = DataFrameVazio
    /\ cards = SemCards
    /\ tabela = SemTabela
    /\ graficos = SemGraficos
    /\ ranking_queimadas = SemRanking
    /\ figuras = SemFiguras

(***************************************************************************)
(* SpecSobreposicoes: criar_cards_csv and mostrar_tabela_unificada_csv on  *)
(* every combination of three loaded tables within the bounds.             *)
(***************************************************************************)
InitSobreposicoes ==
    /\ Parado
    /\ SemSaidas
    /\ pc = "cards"
    /\ df_queimadas_raw = DataFrameVazio
    /\ \E na \in 0..MaxLinhas, ns \in 0..MaxLinhas, nc \in 0..MaxLinhas :
          /\ na + ns + nc <= MaxLinhas
          /\ \E ca \in ColunasAlertas :
                df_alertas_raw \in TabelasDe(ca, LinhasAlertas(ca), na)
          /\ \E cs \in ColunasSigef :
                df_sigef_raw \in TabelasDe(cs, LinhasSigef(cs), ns)
          /\ \E cc \in ColunasCnuc :
                df_cnuc_raw \in TabelasDe(cc, LinhasCnuc(cc), nc)

NextSobreposicoes ==
    CriarCards \/ FigDistribuicaoSigef \/ FigSobreposicoes \/ MostrarTabela

SpecSobreposicoes == InitSobreposicoes /\ [][NextSobreposicoes]_vars

(***************************************************************************)
(* Reference notions of the claims.                                        *)
(***************************************************************************)
\* the seven canonical municipalities, in the canonical order
SeteMunicipios ==
    << <<"A","d","r","i","a","n","ó","p","o","l","i","s">>,
       <<"B","o","c","a","i","ú","v","a"," ","d","o"," ","S","u","l">>,
       <<"C","e","r","r","o"," ","A","z","u","l">>,
       <<"D","o","u","t","o","r"," ","U","l","y","s","s","e","s">>,
       <<"I","t","a","p","e","r","u","ç","u">>,
       <<"R","i","o"," ","B","r","a","n","c","o"," ","d","o"," ","S","u","l">>,
       <<"T","u","n","a","s"," ","d","o"," ","P","a","r","a","n","á">> >>

SeteCodigos ==
    {4100103, 4102703, 4104659, 4107405, 4111258, 4122404, 4127700}

EhCanonico(nome) == \E i \in 1..7 : SeteMunicipios[i] = nome

\* a conservation unit names a canonical municipality in its free text
NomeiaCanonico(texto) ==
    \E i \in 1..7 : str_contains(str_upper(texto), str_upper(SeteMunicipios[i]))

\* a table without the records that match none of the seven municipalities;
\* without the municipality column no record matches
SoCanonicos(df, col, Canonico(_)) ==
    IF col \in df.colunas
    THEN Selecionar(df, LAMBDA r : Canonico(r[col]))
    ELSE [colunas |-> df.colunas, linhas |-> <<>>]

AlertasCanonicos == SoCanonicos(df_alertas_raw, "MUNICIPIO", EhCanonico)

SigefCanonicos ==
    SoCanonicos(df_sigef_raw, "municipio_",
                LAMBDA c : c[1] = "num" /\ c[2] \in SeteCodigos)

CnucCanonicos == SoCanonicos(df_cnuc_raw, "municipio", NomeiaCanonico)

\* sum of one column over the rows 1..n of the unified table
RECURSIVE SomaLinhas(_, _, _)
SomaLinhas(linhas, col, n) ==
    IF n = 0 THEN 0 ELSE linhas[n][col] + SomaLinhas(linhas, col, n - 1)

Abs(x) == IF x < 0 THEN -x ELSE x

(***************************************************************************)
(* C4.  Canonical-set invariant: a record whose municipality matches none  *)
(* of the seven canonical municipalities contributes nothing to the        *)
(* summary cards (alert area, registry-record count, alert count,          *)
(* conservation area) nor to the unified table: each output equals the     *)
(* output computed from the canonical records alone.                       *)
(***************************************************************************)
C4_SoMunicipiosCanonicos ==
    /\ cards # SemCards =>
          cards = criar_cards_csv(CnucCanonicos, SigefCanonicos,
                                  AlertasCanonicos)
    /\ tabela.mostrada =>
          tabela = mostrar_tabela_unificada_csv(AlertasCanonicos,
                                                SigefCanonicos, CnucCanonicos)

(***************************************************************************)
(* C7.  As claimed: in the unified table as displayed, for each of the     *)
(* three columns the TOTAL row equals the sum of the seven municipality    *)
(* rows.                                                                   *)
(***************************************************************************)
C7_TotalIgualSomaExibida ==
    tabela.mostrada =>
        \A col \in {"alertas", "sigef", "cnuc"} :
            tabela.linhas[8][col] = SomaLinhas(tabela.linhas, col, 7)

(***************************************************************************)
(* C7, amended.  The TOTAL row is the sum of the seven municipality rows   *)
(* taken before the one-decimal rounding: the registry count is exactly    *)
(* the sum of the seven counts, and each displayed area total is the       *)
(* rounded sum of the seven unrounded areas, so it is within 0.4 ha of     *)
(* the sum of the seven displayed areas (0.05 ha for each rounding).       *)
(***************************************************************************)
SomaSete(Dado(_)) ==
    LET RECURSIVE s(_)
        s(n) == IF n = 0 THEN 0 ELSE Dado(SeteMunicipios[n]) + s(n - 1)
    IN  s(7)

C7_TotalAntesDeArredondar ==
    tabela.mostrada =>
        /\ tabela.linhas[8].sigef = SomaLinhas(tabela.linhas, "sigef", 7)
        /\ tabela.linhas[8].alertas =
              round1(SomaSete(LAMBDA m : alertas_data(df_alertas_raw, m)))
        /\ tabela.linhas[8].cnuc =
              round1(SomaSete(LAMBDA m : cnuc_data(df_cnuc_raw, m)))
        /\ \A col \in {"alertas", "cnuc"} :
              Abs(tabela.linhas[8][col]
                    - SomaLinhas(tabela.linhas, col, 7)) <= 40

\* two alerts of 0.04 ha: seven cells displayed as 0.0 under a TOTAL of 0.1
C7_Testemunha ==
    /\ tabela.mostrada
    /\ tabela.linhas[8].alertas = 10
    /\ SomaLinhas(tabela.linhas, "alertas", 7) = 0

(***************************************************************************)
(* C8.  Whenever the unified table is displayed it has exactly eight rows: *)
(* the seven canonical municipalities in the canonical order, then one     *)
(* TOTAL row, and no TOTAL anywhere else; the TOTAL is computed over the   *)
(* seven data rows only.                                                   *)
(***************************************************************************)
C8_OitoLinhas ==
    tabela.mostrada =>
        /\ Len(tabela.linhas) = 8
        /\ \A i \in 1..7 : tabela.linhas[i].indice = SeteMunicipios[i]
        /\ tabela.linhas[8].indice = TOTAL
        /\ tabela.linhas[8].sigef = SomaLinhas(tabela.linhas, "sigef", 7)
        /\ tabela.linhas[8].alertas =
              round1(SomaSete(LAMBDA m : alertas_data(df_alertas_raw, m)))

\* displayed with an empty source, a source missing a column and a non-zero total
C8_Testemunha ==
    /\ tabela.mostrada
    /\ empty(df_cnuc_raw)
    /\ ~ empty(df_alertas_raw) /\ "AREAHA" \notin df_alertas_raw.colunas
    /\ tabela.linhas[8].sigef = 1

(***************************************************************************)
(* C9.  In the displayed unified table the cell of municipality m is 0     *)
(* whenever the column's source is empty, lacks its municipality or value  *)
(* column, or has no row attributed to m; and every column is a function   *)
(* of its own source alone: the alert cell of the alert table, the         *)
(* registry cell of the registry table, the conservation cell of the       *)
(* conservation table.                                                     *)
(***************************************************************************)
SemLinhaDe(df, col, Atribuida(_)) ==
    \/ empty(df)
    \/ col \notin df.colunas
    \/ \A i \in 1..Len(df.linhas) : ~ Atribuida(df.linhas[i][col])

C10_CardsSemprePresentes ==
    cards # SemCards =>
        /\ Len(cards) = 5
        /\ cards[3] = 7
        /\ (\/ empty(df_alertas_raw)
            \/ "AREAHA" \notin df_alertas_raw.colunas
            \/ "MUNICIPIO" \notin df_alertas_raw.colunas)
              => cards[1] = 0 /\ cards[4] = 0
        /\ empty(df_sigef_raw) => cards[2] = 0
        /\ (empty(df_cnuc_raw) \/ "ha_total" \notin df_cnuc_raw.colunas)
              => cards[5] = 0
        /\ "Erro ao calcular indicadores" \in erros
              => cards = <<0, 0, 7, 0, 0>>
        /\ pc \in {"sigef", "ucs", "tabela", "desmatamento"}

\* an empty conservation table next to alerts that count
C10_Testemunha ==
    /\ cards # SemCards
    /\ empty(df_cnuc_raw)
    /\ cards[5] = 0
    /\ cards[1] > 0
    /\ cards[4] = 1

(***************************************************************************)
(* Loader (carregar_csv under st.cache_data) and the four loads.           *)
(***************************************************************************)
\* the paths of lines 754-757, in the order of the calls
Caminhos ==
    <<"Alertas_Vale_Ribeira.csv", "cnuc.csv", "SIGEF_Vale_Ribeira.csv",
      "Risco_Fogo.csv">>

PcCarga ==
    <<"carregar_alertas", "carregar_cnuc", "carregar_sigef",
      "carregar_queimadas">>

\* a file on disk: missing, not parseable as CSV, or holding the table df
EstadosArquivo == {"ok", "ausente", "malformado"}

\* the body of carregar_csv as it would be with a silent except branch
carregar_csv_calado(arq) ==
    IF arq.estado = "ok"
    THEN [df |-> arq.df, erro |-> FALSE]
    ELSE [df |-> DataFrameVazio, erro |-> FALSE]

\* the body of carregar_csv: read_csv, or st.error and pd.DataFrame()
carregar_csv_corpo(arq) ==
    IF arq.estado = "ok"
    THEN [df |-> arq.df, erro |-> FALSE]
    ELSE [df |-> DataFrameVazio, erro |-> TRUE]

NaoCarregado == [carregado |-> FALSE, df |-> DataFrameVazio, erro |-> FALSE]

\* carregar_csv as it would be without the st.cache_data decorator
carregar_csv_sem_cache(entrada, arq) ==
    [df   |-> carregar_csv_corpo(arq).df,
     erro |-> carregar_csv_corpo(arq).erro,
     leu  |-> TRUE]

\* the decorated function: the entry of the path when there is one (the
\* stored result and the replay of its st.error), else the body, stored
carregar_csv(entrada, arq) ==
    IF entrada.carregado
    THEN [df |-> entrada.df, erro |-> entrada.erro, leu |-> FALSE]
    ELSE [df   |-> carregar_csv_corpo(arq).df,
          erro |-> carregar_csv_corpo(arq).erro,
          leu  |-> TRUE]

\* lines 754-757: the i-th load
Carregar(i) ==
    LET caminho == Caminhos[i]
        r == carregar_csv(cache[caminho], arquivos[caminho])
    IN  /\ pc = PcCarga[i]
        /\ cache' = [cache EXCEPT ![caminho] =
                        [carregado |-> TRUE, df |-> r.df, erro |-> r.erro]]
        /\ leituras' = [leituras EXCEPT ![caminho] =
                           IF r.leu THEN @ + 1 ELSE @]
        /\ primeiro' = [primeiro EXCEPT ![caminho] =
                           IF @.carregado THEN @
                           ELSE [carregado |-> TRUE, df |-> r.df,
                                 erro |-> r.erro]]
        /\ erros' = IF r.erro THEN erros \cup {caminho} ELSE erros
        /\ df_alertas_raw' = IF i = 1 THEN r.df ELSE df_alertas_raw
        /\ df_cnuc_raw' = IF i = 2 THEN r.df ELSE df_cnuc_raw
        /\ df_sigef_raw' = IF i = 3 THEN r.df ELSE df_sigef_raw
        /\ df_queimadas_raw' = IF i = 4 THEN r.df ELSE df_queimadas_raw
        /\ pc' = IF i < 4 THEN PcCarga[i + 1] ELSE "cards"
        /\ UNCHANGED <<arquivos, execucao, alteracoes, df_alertas_vale,
                       df_queimadas_vale, df_alertas_filtrado,
                       df_queimadas_filtrado, cards, tabela, graficos,
                       ranking_queimadas, figuras>>

(***************************************************************************)
(* Steps of the script: the filters of the second and third tabs.          *)
(***************************************************************************)
\* line 908
FiltrarAlertas ==
    /\ pc = "desmatamento"
    /\ df_alertas_vale' = filtrar_alertas_vale_ribeira(df_alertas_raw)
    /\ pc' = "ano_alertas"
    /\ UNCHANGED <<arquivos, cache, leituras, primeiro, erros, execucao,
                   alteracoes, df_alertas_raw, df_cnuc_raw, df_sigef_raw,
                   df_queimadas_raw, df_queimadas_vale, df_alertas_filtrado,
                   df_queimadas_filtrado, cards, tabela, graficos,
                   ranking_queimadas, figuras>>

\* the texts of st.info the claims are about: lines 921, 923, 1079, 1081,
\* 1122, 1124 and 1189
AvisoSemAlertas ==
    "Nenhum alerta encontrado nos municípios do Vale do Ribeira."

AvisoSemAno == "Coluna de ano não disponível."

AvisoSemColunasRanking ==
    "Colunas necessárias não disponíveis para o ranking."

AvisoSemRankingAlertas ==
    "Dados não disponíveis para o ranking no período selecionado."

AvisoSemQueimadas ==
    "Nenhum dado de queimadas encontrado nos municípios do Vale do Ribeira."

AvisoSemData == "Coluna de data não disponível."

AvisoSemRanking == "Sem dados válidos para este ranking."

\* nothing selected: 'Todos'
Todos == <<"nan", 0>>

\* the years offered by a selectbox: the distinct values of col, NaN dropped
anos_disponiveis(df, col) ==
    {df.linhas[i][col] : i \in 1..Len(df.linhas)} \ {NumNaN}

\* lines 910-923: the year chosen in the selectbox of the second tab
SelecionarAnoAlertas ==
    /\ pc = "ano_alertas"
    /\ IF ~ empty(df_alertas_vale) /\ "ANODETEC" \in df_alertas_vale.colunas
       THEN /\ \E ano \in {Todos} \cup anos_disponiveis(df_alertas_vale,
                                                        "ANODETEC") :
                  df_alertas_filtrado' =
                      IF ano # Todos
                      THEN Selecionar(df_alertas_vale,
                                      LAMBDA r : r["ANODETEC"] = ano)
                      ELSE df_alertas_vale
            /\ UNCHANGED figuras
       ELSE /\ df_alertas_filtrado' = df_alertas_vale
            /\ figuras' = [figuras EXCEPT !.avisos =
                              @ \cup {IF empty(df_alertas_vale)
                                      THEN AvisoSemAlertas
                                      ELSE AvisoSemAno}]
    /\ pc' = "uc_alertas"
    /\ UNCHANGED <<arquivos, cache, leituras, primeiro, erros, execucao,
                   alteracoes, df_alertas_raw, df_cnuc_raw, df_sigef_raw,
                   df_queimadas_raw, df_alertas_vale, df_queimadas_vale,
                   df_queimadas_filtrado, cards, tabela, graficos,
                   ranking_queimadas>>

\* lines 929-952: fig_desmatamento_uc_csv returns a figure with a fixed
\* annotation and no trace, of which the script displays nothing
FigDesmatamentoUc ==
    /\ pc = "uc_alertas"
    /\ figuras' = [figuras EXCEPT !.uc_alertas =
                      IF ~ empty(df_cnuc_raw) /\ ~ empty(df_alertas_filtrado)
                      THEN nada_exibido
                      ELSE substituir_por_aviso]
    /\ pc' = "municipal"
    /\ UNCHANGED <<arquivos, cache, leituras, primeiro, erros, execucao,
                   alteracoes, df_alertas_raw, df_cnuc_raw, df_sigef_raw,
                   df_queimadas_raw, df_alertas_vale, df_queimadas_vale,
                   df_alertas_filtrado, df_queimadas_filtrado, cards, tabela,
                   graficos, ranking_queimadas>>

\* lines 954-974; an exception here is caught by nothing and ends the run
FigDesmatamentoMunicipal ==
    /\ pc = "municipal"
    /\ IF empty(df_alertas_filtrado)
       THEN /\ figuras' = [figuras EXCEPT !.municipal = nada_exibido]
            /\ pc' = "mapa_alertas"
       ELSE IF fig_desmatamento_municipal_falha(df_alertas_filtrado)
       THEN /\ pc' = "excecao"
            /\ UNCHANGED figuras
       ELSE /\ figuras' = [figuras EXCEPT !.municipal =
                  exibir_se_dados(
                      fig_desmatamento_municipal_csv(df_alertas_filtrado))]
            /\ pc' = "mapa_alertas"
    /\ UNCHANGED <<arquivos, cache, leituras, primeiro, erros, execucao,
                   alteracoes, df_alertas_raw, df_cnuc_raw, df_sigef_raw,
                   df_queimadas_raw, df_alertas_vale, df_queimadas_vale,
                   df_alertas_filtrado, df_queimadas_filtrado, cards, tabela,
                   graficos, ranking_queimadas>>

\* FigMapaAlertas as it would be if the map were given the alerts of the
\* selected year
FigMapaAlertasDoAno ==
    /\ pc = "mapa_alertas"
    /\ figuras' = [figuras EXCEPT !.mapa =
                      IF ~ empty(df_alertas_filtrado)
                      THEN exibir_se_dados(
                               fig_mapa_alertas_desmatamento(
                                   df_alertas_filtrado))
                      ELSE substituir_por_aviso]
    /\ pc' = "temporal_alertas"
    /\ UNCHANGED <<arquivos, cache, leituras, primeiro, erros, execucao,
                   alteracoes, df_alertas_raw, df_cnuc_raw, df_sigef_raw,
                   df_queimadas_raw, df_alertas_vale, df_queimadas_vale,
                   df_alertas_filtrado, df_queimadas_filtrado, cards, tabela,
                   graficos, ranking_queimadas>>

\* lines 978-1004
FigMapaAlertas ==
    /\ pc = "mapa_alertas"
    /\ figuras' = [figuras EXCEPT !.mapa =
                      IF ~ empty(df_alertas_vale)
                      THEN exibir_se_dados(
                               fig_mapa_alertas_desmatamento(df_alertas_vale))
                      ELSE substituir_por_aviso]
    /\ pc' = "temporal_alertas"
    /\ UNCHANGED <<arquivos, cache, leituras, primeiro, erros, execucao,
                   alteracoes, df_alertas_raw, df_cnuc_raw, df_sigef_raw,
                   df_queimadas_raw, df_alertas_vale, df_queimadas_vale,
                   df_alertas_filtrado, df_queimadas_filtrado, cards, tabela,
                   graficos, ranking_queimadas>>

\* lines 1010-1031; an exception here is caught by nothing and ends the run
FigDesmatamentoTemporal ==
    /\ pc = "temporal_alertas"
    /\ IF empty(df_alertas_vale)
       THEN /\ figuras' = [figuras EXCEPT !.temporal = substituir_por_aviso]
            /\ pc' = "ranking_alertas"
       ELSE IF fig_desmatamento_temporal_falha(df_alertas_vale)
       THEN /\ pc' = "excecao"
            /\ UNCHANGED figuras
       ELSE /\ figuras' = [figuras EXCEPT !.temporal =
                  exibir_se_dados(
                      fig_desmatamento_temporal_csv(df_alertas_vale))]
            /\ pc' = "ranking_alertas"
    /\ UNCHANGED <<arquivos, cache, leituras, primeiro, erros, execucao,
                   alteracoes, df_alertas_raw, df_cnuc_raw, df_sigef_raw,
                   df_queimadas_raw, df_alertas_vale, df_queimadas_vale,
                   df_alertas_filtrado, df_queimadas_filtrado, cards, tabela,
                   graficos, ranking_queimadas>>

\* the columns the alert ranking requires, line 1037
required_ranking_cols == {"MUNICIPIO", "AREAHA", "ANODETEC"}

\* lines 1036-1081: line 1039 coerces AREAHA in df_alertas_filtrado itself
RankingAlertas ==
    /\ pc = "ranking_alertas"
    /\ IF empty(df_alertas_filtrado)
       THEN /\ figuras' = [figuras EXCEPT
                              !.ranking = [estado |-> "info", serie |-> <<>>],
                              !.avisos = @ \cup {AvisoSemRankingAlertas}]
            /\ UNCHANGED df_alertas_filtrado
       ELSE IF ~ (required_ranking_cols \subseteq df_alertas_filtrado.colunas)
       THEN /\ figuras' = [figuras EXCEPT
                              !.ranking = [estado |-> "info", serie |-> <<>>],
                              !.avisos = @ \cup {AvisoSemColunasRanking}]
            /\ UNCHANGED df_alertas_filtrado
       ELSE /\ df_alertas_filtrado' = coagir(df_alertas_filtrado, "AREAHA")
            /\ figuras' = [figuras EXCEPT !.ranking =
                  [estado |-> "exibido",
                   serie  |-> ranking_municipios(
                                  coagir(df_alertas_filtrado, "AREAHA"))]]
    /\ pc' = "queimadas"
    /\ UNCHANGED <<arquivos, cache, leituras, primeiro, erros, execucao,
                   alteracoes, df_alertas_raw, df_cnuc_raw, df_sigef_raw,
                   df_queimadas_raw, df_alertas_vale, df_queimadas_vale,
                   df_queimadas_filtrado, cards, tabela, graficos,
                   ranking_queimadas>>

\* FiltrarQueimadas as it would be without the copy of line 162: the column
\* Municipio_norm is written into the table the filter was given
FiltrarQueimadasSemCopia ==
    /\ pc = "queimadas"
    /\ IF filtrar_queimadas_falha(df_queimadas_raw)
       THEN /\ pc' = "excecao"
            /\ UNCHANGED <<df_queimadas_vale, df_queimadas_raw>>
       ELSE /\ pc' = "ano_queimadas"
            /\ df_queimadas_vale' =
                  filtrar_queimadas_vale_ribeira(df_queimadas_raw)
            /\ df_queimadas_raw' =
                  IF empty(df_queimadas_raw)
                        \/ "Municipio" \notin df_queimadas_raw.colunas
                  THEN df_queimadas_raw
                  ELSE [colunas |-> df_queimadas_raw.colunas
                                        \cup {"Municipio_norm"},
                        linhas  |->
                           [i \in 1..Len(df_queimadas_raw.linhas) |->
                              [c \in df_queimadas_raw.colunas
                                         \cup {"Municipio_norm"} |->
                                 IF c = "Municipio_norm"
                                 THEN Municipio_norm(
                                         df_queimadas_raw.linhas[i]["Municipio"])
                                 ELSE df_queimadas_raw.linhas[i][c]]]]
    /\ UNCHANGED <<arquivos, cache, leituras, primeiro, erros, execucao,
                   alteracoes, df_alertas_raw, df_cnuc_raw, df_sigef_raw,
                   df_alertas_vale, df_alertas_filtrado,
                   df_queimadas_filtrado, cards, tabela, graficos,
                   ranking_queimadas, figuras>>

\* line 1104; an exception here is caught by nothing and ends the run
FiltrarQueimadas ==
    /\ pc = "queimadas"
    /\ IF filtrar_queimadas_falha(df_queimadas_raw)
       THEN /\ pc' = "excecao"
            /\ UNCHANGED df_queimadas_vale
       ELSE /\ pc' = "ano_queimadas"
            /\ df_queimadas_vale' =
                  filtrar_queimadas_vale_ribeira(df_queimadas_raw)
    /\ UNCHANGED <<arquivos, cache, leituras, primeiro, erros, execucao,
                   alteracoes, df_alertas_raw, df_cnuc_raw, df_sigef_raw,
                   df_queimadas_raw, df_alertas_vale, df_alertas_filtrado,
                   df_queimadas_filtrado, cards, tabela, graficos,
                   ranking_queimadas, figuras>>

\* lines 1107-1108: DataHora parsed and the column Ano derived from it
com_ano(df) ==
    [colunas |-> df.colunas \cup {"Ano"},
     linhas  |-> [i \in 1..Len(df.linhas) |->
                    [c \in df.colunas \cup {"Ano"} |->
                       IF c = "Ano"
                       THEN (IF to_datetime(df.linhas[i]["DataHora"])[1] = "num"
                             THEN <<"num",
                                    df.linhas[i]["DataHora"][2] \div 10000>>
                             ELSE NumNaN)
                       ELSE IF c = "DataHora"
                       THEN to_datetime(df.linhas[i][c])
                       ELSE df.linhas[i][c]]]]

\* lines 1106-1124: the year chosen in the selectbox of the third tab
SelecionarAnoQueimadas ==
    /\ pc = "ano_queimadas"
    /\ IF ~ empty(df_queimadas_vale) /\ "DataHora" \in df_queimadas_vale.colunas
       THEN /\ df_queimadas_vale' = com_ano(df_queimadas_vale)
            /\ \E ano \in {Todos} \cup anos_disponiveis(
                                          com_ano(df_queimadas_vale), "Ano") :
                  df_queimadas_filtrado' =
                      IF ano # Todos
                      THEN Selecionar(com_ano(df_queimadas_vale),
                                      LAMBDA r : r["Ano"] = ano)
                      ELSE com_ano(df_queimadas_vale)
            /\ UNCHANGED figuras
       ELSE /\ df_queimadas_filtrado' = df_queimadas_vale
            /\ figuras' = [figuras EXCEPT !.avisos =
                              @ \cup {IF empty(df_queimadas_vale)
                                      THEN AvisoSemQueimadas
                                      ELSE AvisoSemData}]
            /\ UNCHANGED df_queimadas_vale
    /\ pc' = "graficos"
    /\ UNCHANGED <<arquivos, cache, leituras, primeiro, erros, execucao,
                   alteracoes, df_alertas_raw, df_cnuc_raw, df_sigef_raw,
                   df_queimadas_raw, df_alertas_vale, df_alertas_filtrado,
                   cards, tabela, graficos, ranking_queimadas>>

(***************************************************************************)
(* Steps of the script: figures and ranking of the third tab, end of run.  *)
(***************************************************************************)
\* lines 1129-1130
CriarGraficos ==
    /\ pc = "graficos"
    /\ ~ empty(df_queimadas_filtrado)
    /\ graficos' = criar_graficos_queimadas(df_queimadas_filtrado)
    /\ pc' = "ranking"
    /\ UNCHANGED <<arquivos, cache, leituras, primeiro, erros, execucao,
                   alteracoes, df_alertas_raw, df_cnuc_raw, df_sigef_raw,
                   df_queimadas_raw, df_alertas_vale, df_queimadas_vale,
                   df_alertas_filtrado, df_queimadas_filtrado, cards, tabela,
                   ranking_queimadas, figuras>>

\* lines 1190-1191: nothing to show in the third tab
SemDadosQueimadas ==
    /\ pc = "graficos"
    /\ empty(df_queimadas_filtrado)
    /\ erros' = erros \cup {"Não foi possível carregar os dados de queimadas"}
    /\ pc' = "fim"
    /\ UNCHANGED <<arquivos, cache, leituras, primeiro, execucao,
                   alteracoes, df_alertas_raw, df_cnuc_raw, df_sigef_raw,
                   df_queimadas_raw, df_alertas_vale, df_queimadas_vale,
                   df_alertas_filtrado, df_queimadas_filtrado, cards, tabela,
                   graficos, ranking_queimadas, figuras>>

\* lines 1171-1180: the indicator chosen in the selectbox, and its ranking
CriarRanking ==
    /\ pc = "ranking"
    /\ \E i \in 1..Len(Indicadores) :
          /\ ranking_queimadas' =
              [feito     |-> TRUE,
               indicador |-> Indicadores[i],
               linhas    |-> criar_ranking_queimadas(df_queimadas_filtrado,
                                                     Indicadores[i])]
          /\ figuras' =
                IF criar_ranking_queimadas(df_queimadas_filtrado,
                                           Indicadores[i]) = <<>>
                THEN [figuras EXCEPT !.avisos = @ \cup {AvisoSemRanking}]
                ELSE figuras
    /\ pc' = "fim"
    /\ UNCHANGED <<arquivos, cache, leituras, primeiro, erros, execucao,
                   alteracoes, df_alertas_raw, df_cnuc_raw, df_sigef_raw,
                   df_queimadas_raw, df_alertas_vale, df_queimadas_vale,
                   df_alertas_filtrado, df_queimadas_filtrado, cards, tabela,
                   graficos>>

\* a widget changes or the page is reloaded: Streamlit runs the script again
\* from its first line, in the same process
Reexecutar ==
    /\ pc \in {"fim", "excecao"}
    /\ execucao < MaxExecucoes
    /\ execucao' = execucao + 1
    /\ pc' = PcCarga[1]
    /\ erros' = {}
    /\ df_alertas_raw' = DataFrameVazio
    /\ df_cnuc_raw' = DataFrameVazio
    /\ df_sigef_raw' = DataFrameVazio
    /\ df_queimadas_raw' = DataFrameVazio
    /\ df_alertas_vale' = DataFrameVazio
    /\ df_queimadas_vale' = DataFrameVazio
    /\ df_alertas_filtrado' = DataFrameVazio
    /\ df_queimadas_filtrado' = DataFrameVazio
    /\ cards' = SemCards
    /\ tabela' = SemTabela
    /\ graficos' = SemGraficos
    /\ ranking_queimadas' = SemRanking
    /\ figuras' = SemFiguras
    /\ UNCHANGED <<arquivos, cache, leituras, primeiro, alteracoes>>

(***************************************************************************)
(* The files on disk.                                                      *)
(***************************************************************************)
UC == <<"A","P","A">>

ConteudoAlertas ==
    [colunas |-> {"MUNICIPIO", "AREAHA", "ANODETEC", "DATADETEC"},
     linhas  |-> << [MUNICIPIO |-> municipios_vale[3],
                     AREAHA    |-> <<"num", 1250>>,
                     ANODETEC  |-> <<"num", 2022>>,
                     DATADETEC |-> <<"num", 20220310>>],
                    [MUNICIPIO |-> Curitiba,
                     AREAHA    |-> <<"num", 4>>,
                     ANODETEC  |-> <<"num", 2023>>,
                     DATADETEC |-> <<"num", 20230105>>] >>]

ConteudoCnuc ==
    [colunas |-> {"nome_uc", "municipio", "ha_total"},
     linhas  |-> << [nome_uc   |-> UC,
                     municipio |-> CerroAzulEAdrianopolis,
                     ha_total  |-> <<"num", 1250>>] >>]

ConteudoSigef ==
    [colunas |-> {"municipio_"},
     linhas  |-> << [municipio_ |-> <<"num", 4100103>>],
                    [municipio_ |-> <<"num", 4106902>>] >>]

LinhaQueimada(m, d, r) ==
    [Municipio    |-> m,
     DataHora     |-> <<"num", d>>,
     RiscoFogo    |-> <<"num", r>>,
     Precipitacao |-> <<"num", 25>>,
     DiaSemChuva  |-> <<"num", 30>>,
     Latitude     |-> <<"num", -24827>>,
     Longitude    |-> <<"num", -49260>>]

ColunasQueimadas ==
    {"Municipio", "DataHora", "RiscoFogo", "Precipitacao", "DiaSemChuva",
     "Latitude", "Longitude"}

ConteudoQueimadas ==
    [colunas |-> ColunasQueimadas,
     linhas  |-> << LinhaQueimada(municipios_vale_queimadas[3], 20240115, 200),
                    LinhaQueimada(municipios_vale[5], 20250320, 1500) >>]

\* a fire-risk file whose column Municipio is blank in every row
ConteudoQueimadasSemNomes ==
    [colunas |-> ColunasQueimadas,
     linhas  |-> << LinhaQueimada(NaN, 20240115, 200) >>]

Conteudos(caminho) ==
    IF caminho = Caminhos[1] THEN {ConteudoAlertas}
    ELSE IF caminho = Caminhos[2] THEN {ConteudoCnuc}
    ELSE IF caminho = Caminhos[3] THEN {ConteudoSigef}
    ELSE {ConteudoQueimadas, ConteudoQueimadasSemNomes}

Arquivos(caminho) ==
    {[estado |-> "ok", df |-> d] : d \in Conteudos(caminho)}
        \cup {[estado |-> e, df |-> DataFrameVazio] :
                 e \in {"ausente", "malformado"}}

ConjuntoCaminhos == {Caminhos[i] : i \in 1..Len(Caminhos)}

\* somebody replaces, removes or damages a file between two runs
AlterarArquivo ==
    /\ pc \in {"fim", "excecao"}
    /\ alteracoes < MaxAlteracoes
    /\ alteracoes' = alteracoes + 1
    /\ \E caminho \in ConjuntoCaminhos :
          \E novo \in Arquivos(caminho) \ {arquivos[caminho]} :
              arquivos' = [arquivos EXCEPT ![caminho] = novo]
    /\ UNCHANGED <<cache, leituras, primeiro, erros, pc, execucao,
                   df_alertas_raw, df_cnuc_raw, df_sigef_raw, df_queimadas_raw,
                   df_alertas_vale, df_queimadas_vale, df_alertas_filtrado,
                   df_queimadas_filtrado, cards, tabela, graficos,
                   ranking_queimadas, figuras>>

(***************************************************************************)
(* Spec: one session of the dashboard, the script run from its first line  *)
(* to its last, again and again.                                           *)
(***************************************************************************)
Init ==
    /\ arquivos \in {f \in [ConjuntoCaminhos ->
                              UNION {Arquivos(c) : c \in ConjuntoCaminhos}] :
                        \A c \in ConjuntoCaminhos : f[c] \in Arquivos(c)}
    /\ cache = [c \in ConjuntoCaminhos |-> NaoCarregado]
    /\ leituras = [c \in ConjuntoCaminhos |-> 0]
    /\ primeiro = [c \in ConjuntoCaminhos |-> NaoCarregado]
    /\ erros = {}
    /\ pc = PcCarga[1]
    /\ execucao = 1
    /\ alteracoes = 0
    /\ df_alertas_raw = DataFrameVazio
    /\ df_cnuc_raw = DataFrameVazio
    /\ df_sigef_raw = DataFrameVazio
    /\ df_queimadas_raw = DataFrameVazio
    /\ SemSaidas

Next ==
    \/ \E i \in 1..Len(Caminhos) : Carregar(i)
    \/ CriarCards
    \/ FigDistribuicaoSigef
    \/ FigSobreposicoes
    \/ MostrarTabela
    \/ FiltrarAlertas
    \/ SelecionarAnoAlertas
    \/ FigDesmatamentoUc
    \/ FigDesmatamentoMunicipal
    \/ FigMapaAlertas
    \/ FigDesmatamentoTemporal
    \/ RankingAlertas
    \/ FiltrarQueimadas
    \/ SelecionarAnoQueimadas
    \/ CriarGraficos
    \/ SemDadosQueimadas
    \/ CriarRanking
    \/ Reexecutar
    \/ AlterarArquivo

Spec == Init /\ [][Next]_vars

(***************************************************************************)
(* SpecFiltroA, SpecFiltroB: the two municipality filters on every table   *)
(* of canonical names, upper-case names and near-miss spellings.           *)
(***************************************************************************)
NomesFiltro ==
    {municipios_vale[i] : i \in 1..7}
        \cup {municipios_vale_queimadas[i] : i \in 1..7}
        \cup {<<"c","e","r","r","o"," ","a","z","u","l">>,
              <<" ","C","e","r","r","o"," ","A","z","u","l">>,
              <<"C","e","r","r","o"," ","A","z","u","l"," ">>,
              <<"A","d","r","i","a","n","o","p","o","l","i","s">>,
              <<"A","D","R","I","A","N","O","P","O","L","I","S">>,
              Curitiba,
              NaN}

LinhasFiltro(cols, colnome) ==
    {[c \in cols |-> IF c = colnome THEN m ELSE <<"num", 4>>] :
        m \in NomesFiltro}

TabelasFiltro(colnome, outra) ==
    UNION {TabelasDe(cols, LinhasFiltro(cols, colnome), n) :
              cols \in {{colnome, outra}, {outra}}, n \in 0..MaxLinhas}

InitFiltroA ==
    /\ Parado
    /\ SemSaidas
    /\ pc = "desmatamento"
    /\ df_alertas_raw \in TabelasFiltro("MUNICIPIO", "AREAHA")
    /\ df_cnuc_raw = DataFrameVazio
    /\ df_sigef_raw = DataFrameVazio
    /\ df_queimadas_raw = DataFrameVazio

SpecFiltroA == InitFiltroA /\ [][FiltrarAlertas]_vars

InitFiltroB ==
    /\ Parado
    /\ SemSaidas
    /\ pc = "queimadas"
    /\ df_queimadas_raw \in TabelasFiltro("Municipio", "RiscoFogo")
    /\ df_alertas_raw = DataFrameVazio
    /\ df_cnuc_raw = DataFrameVazio
    /\ df_sigef_raw = DataFrameVazio

SpecFiltroB == InitFiltroB /\ [][FiltrarQueimadas]_vars

(***************************************************************************)
(* SpecQueimadas: criar_graficos_queimadas and criar_ranking_queimadas on  *)
(* every fire-risk table within the bounds, column set by column set.      *)
(***************************************************************************)
MunicipiosQ == {municipios_vale_queimadas[3], municipios_vale_queimadas[5]}

RiscosQ ==
    {<<"num", 200>>, <<"num", 400>>, <<"num", 1500>>, <<"num", -100>>,
     <<"nan", 0>>, <<"txt", 0>>}

DatasQ == {<<"num", 20240115>>, <<"num", 20240320>>, <<"txt", 0>>}

LinhasQ(cols, Ms, Ds, Rs, Ps, Cs, Las) ==
    {[c \in cols |->
        CASE c = "Municipio"    -> m
          [] c = "DataHora"     -> d
          [] c = "RiscoFogo"    -> r
          [] c = "Precipitacao" -> pr
          [] c = "DiaSemChuva"  -> ch
          [] c = "Latitude"     -> la
          [] OTHER              -> <<"num", -49260>>] :
        m \in Ms, d \in Ds, r \in Rs, pr \in Ps, ch \in Cs, la \in Las}

Um == {<<"num", 0>>}

\* the column sets a fire-risk file may come with, and the rows of each
RecortesQ ==
    {[colunas |-> {"DataHora", "RiscoFogo"},
      linhas  |-> LinhasQ({"DataHora", "RiscoFogo"},
                          {NaN}, DatasQ, RiscosQ, Um, Um, Um)],
     [colunas |-> {"Municipio", "RiscoFogo"},
      linhas  |-> LinhasQ({"Municipio", "RiscoFogo"},
                          MunicipiosQ, Um, RiscosQ, Um, Um, Um)],
     [colunas |-> map_cols,
      linhas  |-> LinhasQ(map_cols, {municipios_vale_queimadas[3]}, Um,
                          RiscosQ, Um, Um,
                          {<<"num", -24827>>, <<"nan", 0>>})],
     [colunas |-> map_cols \cup {"Precipitacao"},
      linhas  |-> LinhasQ(map_cols \cup {"Precipitacao"},
                          {municipios_vale_queimadas[3]}, Um,
                          {<<"num", 200>>, <<"num", 1500>>, <<"txt", 0>>},
                          {<<"num", 25>>, <<"num", -10>>, <<"nan", 0>>}, Um,
                          {<<"num", -24827>>})],
     [colunas |-> {"Municipio", "Precipitacao", "DiaSemChuva"},
      linhas  |-> LinhasQ({"Municipio", "Precipitacao", "DiaSemChuva"},
                          MunicipiosQ, Um, Um,
                          {<<"num", 25>>, <<"num", 0>>, <<"num", -10>>},
                          {<<"num", 30>>, <<"num", -1>>, <<"txt", 0>>}, Um)]}

\* the scenario of the specification: risks 0.2, 1.5 and 0.4 in one municipality
CenarioRisco ==
    [colunas |-> {"Municipio", "RiscoFogo"},
     linhas  |-> [i \in 1..3 |->
                    [Municipio |-> municipios_vale_queimadas[3],
                     RiscoFogo |-> <<"num", <<200, 1500, 400>>[i]>>]]]

TabelasQueimadas ==
    UNION {TabelasDe(r.colunas, r.linhas, n) :
              r \in RecortesQ, n \in 0..MaxLinhas}
        \cup {CenarioRisco}

InitQueimadas ==
    /\ Parado
    /\ pc = "graficos"
    /\ df_alertas_raw = DataFrameVazio
    /\ df_cnuc_raw = DataFrameVazio
    /\ df_sigef_raw = DataFrameVazio
    /\ df_queimadas_raw = DataFrameVazio
    /\ df_alertas_vale = DataFrameVazio
    /\ df_queimadas_vale = DataFrameVazio
    /\ df_alertas_filtrado = DataFrameVazio
    /\ df_queimadas_filtrado \in TabelasQueimadas
    /\ cards = SemCards
    /\ tabela = SemTabela
    /\ graficos = SemGraficos
    /\ ranking_queimadas = SemRanking
    /\ figuras = SemFiguras

NextQueimadas == CriarGraficos \/ SemDadosQueimadas \/ CriarRanking

SpecQueimadas == InitQueimadas /\ [][NextQueimadas]_vars

(***************************************************************************)
(* SpecAbas: one run of the script through its three tabs, from the loaded *)
(* tables to the last ranking, on alert tables and on fire-risk tables of  *)
(* several column sets.                                                    *)
(***************************************************************************)
LinhasA(cols, Ms, As, Ys, Ds) ==
    {[c \in cols |->
        CASE c = "MUNICIPIO" -> m
          [] c = "AREAHA"    -> a
          [] c = "ANODETEC"  -> y
          [] OTHER           -> d] :
        m \in Ms, a \in As, y \in Ys, d \in Ds}

\* the column sets an alert file may come with, and the rows of each
RecortesA ==
    {[colunas |-> {"MUNICIPIO", "AREAHA", "ANODETEC"},
      linhas  |-> LinhasA({"MUNICIPIO", "AREAHA", "ANODETEC"},
                          {municipios_vale[3], municipios_vale[1]},
                          {<<"num", 1250>>, <<"num", 4>>, <<"txt", 0>>},
                          {<<"num", 2021>>, <<"num", 2022>>}, Um)],
     [colunas |-> {"MUNICIPIO", "AREAHA", "DATADETEC"},
      linhas  |-> LinhasA({"MUNICIPIO", "AREAHA", "DATADETEC"},
                          {municipios_vale[3], Curitiba},
                          {<<"num", 1250>>, <<"nan", 0>>}, Um,
                          {<<"num", 20220310>>, <<"num", 20220525>>,
                           <<"txt", 0>>})],
     [colunas |-> {"MUNICIPIO", "DATADETEC"},
      linhas  |-> LinhasA({"MUNICIPIO", "DATADETEC"},
                          {municipios_vale[3], Curitiba}, Um, Um,
                          {<<"num", 20220310>>})],
     [colunas |-> {"MUNICIPIO"},
      linhas  |-> LinhasA({"MUNICIPIO"}, {municipios_vale[3], Curitiba},
                          Um, Um, Um)],
     [colunas |-> {"AREAHA"},
      linhas  |-> LinhasA({"AREAHA"}, Um,
                          {<<"num", 1250>>, <<"num", 4>>}, Um, Um)],
     [colunas |-> {"MUNICIPIO", "AREAHA", "ANODETEC", "DATADETEC"},
      linhas  |-> LinhasA({"MUNICIPIO", "AREAHA", "ANODETEC", "DATADETEC"},
                          {municipios_vale[3]},
                          {<<"num", 1250>>, <<"num", 4>>},
                          {<<"num", 2021>>, <<"num", 2022>>},
                          {<<"num", 20210310>>, <<"num", 20220525>>})]}

TabelasAbasAlertas ==
    UNION {TabelasDe(r.colunas, r.linhas, n) :
              r \in RecortesA, n \in 0..MaxLinhas}

RecortesAbasQ ==
    {[colunas |-> {"Municipio", "RiscoFogo"},
      linhas  |-> LinhasQ({"Municipio", "RiscoFogo"},
                          {municipios_vale_queimadas[3], municipios_vale[3],
                           Curitiba, NaN}, Um,
                          {<<"num", 500>>, <<"num", 800>>, <<"num", 1500>>},
                          Um, Um, Um)],
     [colunas |-> {"Municipio", "RiscoFogo", "DataHora"},
      linhas  |-> LinhasQ({"Municipio", "RiscoFogo", "DataHora"},
                          {municipios_vale_queimadas[3]},
                          {<<"num", 20240115>>, <<"num", 20250320>>,
                           <<"txt", 0>>},
                          {<<"num", 500>>, <<"num", 1500>>}, Um, Um, Um)],
     [colunas |-> {"RiscoFogo"},
      linhas  |-> LinhasQ({"RiscoFogo"}, Um, Um,
                          {<<"num", 500>>, <<"num", 800>>}, Um, Um, Um)],
     [colunas |-> {"Municipio", "Precipitacao"},
      linhas  |-> LinhasQ({"Municipio", "Precipitacao"},
                          {municipios_vale_queimadas[3]}, Um, Um,
                          {<<"num", 25>>, <<"num", -10>>}, Um, Um)]}

TabelasAbasQueimadas ==
    UNION {TabelasDe(r.colunas, r.linhas, n) :
              r \in RecortesAbasQ, n \in 0..MaxLinhas}

\* one conservation unit, for the figures that need the conservation table
UmaUc ==
    [colunas |-> {"nome_uc", "ha_total"},
     linhas  |-> <<[nome_uc |-> UC, ha_total |-> <<"num", 1250>>]>>]

InitAbas ==
    /\ Parado
    /\ SemSaidas
    /\ pc = "cards"
    /\ df_sigef_raw = DataFrameVazio
    /\ \/ /\ df_alertas_raw \in TabelasAbasAlertas
          /\ df_cnuc_raw \in {DataFrameVazio, UmaUc}
          /\ df_queimadas_raw = DataFrameVazio
       \/ /\ df_alertas_raw = DataFrameVazio
          /\ df_cnuc_raw = DataFrameVazio
          /\ df_queimadas_raw \in TabelasAbasQueimadas

NextAbas ==
    \/ CriarCards
    \/ FigDistribuicaoSigef
    \/ FigSobreposicoes
    \/ MostrarTabela
    \/ FiltrarAlertas
    \/ SelecionarAnoAlertas
    \/ FigDesmatamentoUc
    \/ FigDesmatamentoMunicipal
    \/ FigMapaAlertas
    \/ FigDesmatamentoTemporal
    \/ RankingAlertas
    \/ FiltrarQueimadas
    \/ SelecionarAnoQueimadas
    \/ CriarGraficos
    \/ SemDadosQueimadas
    \/ CriarRanking

SpecAbas == InitAbas /\ [][NextAbas]_vars

(***************************************************************************)
(* SpecSigef: fig_distribuicao_sigef on registry tables whose municipio_   *)
(* holds codes of the map (the first, the third and the last), a code of   *)
(* another municipality, blanks or text.                                   *)
(***************************************************************************)
CodigosRegistro ==
    {<<"num", municipios_map_cods[i]>> : i \in {1, 3, 7}}
        \cup {<<"num", 4106902>>, <<"nan", 0>>, <<"txt", 0>>}

TabelasRegistro ==
    UNION {TabelasDe({"municipio_"},
                     {[c \in {"municipio_"} |-> k] : k \in CodigosRegistro},
                     n) : n \in 0..MaxRegistros}
        \cup TabelasDe({"parcela_co"},
                       {[c \in {"parcela_co"} |-> <<"num", 1>>]}, 1)

InitSigef ==
    /\ Parado
    /\ SemSaidas
    /\ pc = "sigef"
    /\ df_alertas_raw = DataFrameVazio
    /\ df_cnuc_raw = DataFrameVazio
    /\ df_queimadas_raw = DataFrameVazio
    /\ df_sigef_raw \in TabelasRegistro

SpecSigef == InitSigef /\ [][FigDistribuicaoSigef]_vars

(***************************************************************************)
(* SpecTopN: criar_graficos_queimadas on filtered tables of nine rows in   *)
(* eight spellings of the municipality (the seven upper-case names and     *)
(* 'Cerro Azul', which the filter keeps as well), the first spelling on    *)
(* two rows; each row is valid in both columns, or in neither.             *)
(***************************************************************************)
InitTopN ==
    /\ Parado
    /\ pc = "graficos"
    /\ df_alertas_raw = DataFrameVazio
    /\ df_cnuc_raw = DataFrameVazio
    /\ df_sigef_raw = DataFrameVazio
    /\ df_queimadas_raw = DataFrameVazio
    /\ df_alertas_vale = DataFrameVazio
    /\ df_queimadas_vale = DataFrameVazio
    /\ df_alertas_filtrado = DataFrameVazio
    /\ cards = SemCards
    /\ tabela = SemTabela
    /\ graficos = SemGraficos
    /\ ranking_queimadas = SemRanking
    /\ figuras = SemFiguras
    /\ \E v \in [1..9 -> {<<200, 25>>, <<800, 5>>, <<1500, -10>>}] :
          df_queimadas_filtrado =
              [colunas |-> {"Municipio", "Municipio_norm", "RiscoFogo",
                            "Precipitacao"},
               linhas  |->
                  [i \in 1..9 |->
                     [Municipio      |->
                          IF i <= 7 THEN municipios_vale_queimadas[i]
                          ELSE IF i = 8 THEN municipios_vale[3]
                          ELSE municipios_vale_queimadas[1],
                      Municipio_norm |->
                          IF i <= 7 THEN municipios_vale_queimadas[i]
                          ELSE IF i = 8 THEN municipios_vale_queimadas[3]
                          ELSE municipios_vale_queimadas[1],
                      RiscoFogo      |-> <<"num", v[i][1]>>,
                      Precipitacao   |-> <<"num", v[i][2]>>]]]

SpecTopN == InitTopN /\ [][CriarGraficos]_vars

(***************************************************************************)
(* Reference notions of the claims on the filters and on the fire risk.    *)
(***************************************************************************)
\* one of the seven canonical names in upper case, diacritics kept
EhCanonicoMaiusculo(nome) ==
    \E i \in 1..7 : str_upper(SeteMunicipios[i]) = nome

\* the rows of a filtered table without the column the filter added
SemNorm(linhas, cols) ==
    [i \in 1..Len(linhas) |-> [c \in cols |-> linhas[i][c]]]

RiscoNoIntervalo(c) ==
    c[1] \in {"num", "str"} /\ c[2] >= 0 /\ c[2] <= 1000

\* the rows of the table shown in the third tab whose risk is a number of
\* [0, 1] and that satisfy Cond
LinhasDeRiscoValido(Cond(_)) ==
    {i \in 1..Len(df_queimadas_filtrado.linhas) :
        /\ RiscoNoIntervalo(df_queimadas_filtrado.linhas[i]["RiscoFogo"])
        /\ Cond(df_queimadas_filtrado.linhas[i])}

RECURSIVE SomaRisco(_)
SomaRisco(S) ==
    IF S = {} THEN 0
    ELSE LET i == CHOOSE j \in S : TRUE
         IN  df_queimadas_filtrado.linhas[i]["RiscoFogo"][2]
                 + SomaRisco(S \ {i})

MaiorRisco(S) ==
    LET vs == {df_queimadas_filtrado.linhas[i]["RiscoFogo"][2] : i \in S}
    IN  CHOOSE v \in vs : \A w \in vs : v >= w

(***************************************************************************)
(* C1.  Range-exclusion: a row whose RiscoFogo is below 0, above 1,        *)
(* missing or non-numeric contributes to no aggregate over RiscoFogo.      *)
(* Every bucket of the monthly series, every bar of the top-municipality   *)
(* chart and every row of the 'Maior Risco de Fogo' ranking has the sum    *)
(* (mean), maximum and count of exactly the rows of its month or           *)
(* municipality whose risk is a number of [0, 1], and every point of the   *)
(* map is such a row.                                                      *)
(***************************************************************************)
C1_ForaDoIntervaloNaoConta ==
    /\ (ranking_queimadas.feito
            /\ ranking_queimadas.indicador = "Maior Risco de Fogo") =>
          \A k \in 1..Len(ranking_queimadas.linhas) :
             LET g == ranking_queimadas.linhas[k]
                 V == LinhasDeRiscoValido(
                          LAMBDA r : r["Municipio"] = g.Municipio)
             IN  /\ V # {}
                 /\ g.quantidade = Cardinality(V)
                 /\ g.maximo = MaiorRisco(V)
                 /\ g.media = round_div(SomaRisco(V), Cardinality(V))
    /\ graficos.feito =>
          /\ \A k \in 1..Len(graficos.top_risco.serie) :
                LET g == graficos.top_risco.serie[k]
                    V == LinhasDeRiscoValido(
                             LAMBDA r : r["Municipio"] = g.chave)
                IN  /\ V # {}
                    /\ g.quantidade = Cardinality(V)
                    /\ g.soma = SomaRisco(V)
          /\ \A k \in 1..Len(graficos.temporal.serie) :
                LET b == graficos.temporal.serie[k]
                    V == LinhasDeRiscoValido(
                             LAMBDA r : /\ r["DataHora"][1] \in {"num", "str"}
                                        /\ r["DataHora"][2] \div 100 = b.mes)
                IN  /\ b.quantidade = Cardinality(V)
                    /\ b.soma = SomaRisco(V)
          /\ \A k \in 1..Len(graficos.mapa.serie) :
                LET ponto == graficos.mapa.serie[k]
                IN  /\ RiscoNoIntervalo(ponto["RiscoFogo"])
                    /\ LinhasDeRiscoValido(
                           LAMBDA r :
                               /\ r["RiscoFogo"][2] = ponto["RiscoFogo"][2]
                               /\ \A c \in map_cols \ {"RiscoFogo"} :
                                      r[c] = ponto[c])
                          # {}

\* risks 0.2, 1.5 and 0.4 of one municipality: mean 0.3 over 2 fires
C1_Testemunha ==
    /\ df_queimadas_filtrado = CenarioRisco
    /\ graficos.feito
    /\ ranking_queimadas.feito
    /\ ranking_queimadas.linhas =
          <<[Municipio  |-> municipios_vale_queimadas[3],
             media      |-> 300,
             maximo     |-> 400,
             quantidade |-> 2]>>

(***************************************************************************)
(* C2.  Variant A: for every alert table that has a MUNICIPIO column, the  *)
(* filter keeps exactly the rows whose MUNICIPIO is character for          *)
(* character one of the seven accented canonical names, in their order,    *)
(* and rejects every other row (other case, no diacritics, surrounding     *)
(* whitespace).                                                            *)
(***************************************************************************)
C2_FiltroExato ==
    (pc = "ano_alertas" /\ "MUNICIPIO" \in df_alertas_raw.colunas) =>
        df_alertas_vale.linhas =
            SelectSeq(df_alertas_raw.linhas,
                      LAMBDA r : EhCanonico(r["MUNICIPIO"]))

\* a canonical row is kept and the near misses around it are dropped
C2_Testemunha ==
    /\ pc = "ano_alertas"
    /\ "MUNICIPIO" \in df_alertas_raw.colunas
    /\ Len(df_alertas_raw.linhas) = 2
    /\ df_alertas_raw.linhas[1]["MUNICIPIO"] =
          <<" ","C","e","r","r","o"," ","A","z","u","l">>
    /\ df_alertas_raw.linhas[2]["MUNICIPIO"] = municipios_vale[3]
    /\ Len(df_alertas_vale.linhas) = 1

(***************************************************************************)
(* C3.  Variant B: for every fire-risk table that has a Municipio column,  *)
(* the filter returns, and its result holds exactly the rows whose         *)
(* Municipio, once uppercased, is one of the seven uppercased canonical    *)
(* names (diacritics kept), in their order.                                *)
(***************************************************************************)
C3_FiltroMaiusculas ==
    (pc # "queimadas" /\ "Municipio" \in df_queimadas_raw.colunas) =>
        /\ pc # "excecao"
        /\ SemNorm(df_queimadas_vale.linhas, df_queimadas_raw.colunas) =
              SelectSeq(df_queimadas_raw.linhas,
                        LAMBDA r : EhCanonicoMaiusculo(
                                       str_upper(r["Municipio"])))

(***************************************************************************)
(* Reference notions of the claims on the loader.                          *)
(***************************************************************************)
\* the table the i-th load of the script binds
Bruto(i) ==
    CASE i = 1 -> df_alertas_raw
      [] i = 2 -> df_cnuc_raw
      [] i = 3 -> df_sigef_raw
      [] OTHER -> df_queimadas_raw

\* the i-th load of the current run has returned
JaCarregou(i) == \A j \in 1..i : pc # PcCarga[j]

(***************************************************************************)
(* C5.  Loader failure: a call of carregar_csv that reads the file returns *)
(* the parsed table when the file parses, and an empty table when the file *)
(* is missing or malformed; in the failure case the error is reported and  *)
(* nothing is raised: the script goes on to the next load and, after the   *)
(* fourth, to the rest of the script.                                      *)
(***************************************************************************)
C5_FalhaDeCargaNaoInterrompe ==
    [][\A i \in 1..4 :
          (pc = PcCarga[i] /\ pc' # pc /\ ~ cache[Caminhos[i]].carregado) =>
              /\ IF arquivos[Caminhos[i]].estado = "ok"
                 THEN /\ Bruto(i)' = arquivos[Caminhos[i]].df
                      /\ Caminhos[i] \notin erros'
                 ELSE /\ Bruto(i)' = DataFrameVazio
                      /\ Caminhos[i] \in erros'
              /\ pc' = IF i < 4 THEN PcCarga[i + 1] ELSE "cards"]_vars

\* a run that got to its end although the alert file could not be read,
\* with the registry table loaded and the unified table displayed
C5_Testemunha ==
    /\ pc = "fim"
    /\ Caminhos[1] \in erros
    /\ empty(df_alertas_raw)
    /\ ~ empty(df_sigef_raw)
    /\ tabela.mostrada

(***************************************************************************)
(* C6.  Loader memoization: within one process the second and every later  *)
(* call of carregar_csv with a path returns what the first call with that  *)
(* path returned, and the file is read at most once, whatever happened to  *)
(* the file and whatever other paths were loaded in between.               *)
(***************************************************************************)
C6_CargaMemoizada ==
    \A i \in 1..4 :
        /\ leituras[Caminhos[i]] <= 1
        /\ JaCarregou(i) =>
              /\ primeiro[Caminhos[i]].carregado
              /\ Bruto(i) = primeiro[Caminhos[i]].df
              /\ (Caminhos[i] \in erros) = primeiro[Caminhos[i]].erro

\* a second run, after the alert file disappeared, still has the table of
\* the first run
C6_Testemunha ==
    /\ execucao = 2
    /\ JaCarregou(4)
    /\ arquivos[Caminhos[1]].estado = "ausente"
    /\ ~ empty(df_alertas_raw)
    /\ leituras[Caminhos[1]] = 1

(***************************************************************************)
(* Reference notions of the claims on one run of the script.               *)
(***************************************************************************)
\* the positions of a run that ends without exception, in their order
OrdemPc ==
    <<"cards", "sigef", "ucs", "tabela", "desmatamento", "ano_alertas",
      "uc_alertas", "municipal", "mapa_alertas", "temporal_alertas",
      "ranking_alertas", "queimadas", "ano_queimadas", "graficos", "ranking",
      "fim">>

\* the run has executed the step that starts at position p
Passou(p) ==
    \E i, j \in 1..Len(OrdemPc) :
        OrdemPc[i] = p /\ OrdemPc[j] = pc /\ i < j

\* the second tab was run to its last step
SegundaAbaFeita == figuras.ranking.estado # ""

SemMunicipioAlertas ==
    empty(df_alertas_raw) \/ "MUNICIPIO" \notin df_alertas_raw.colunas

SemMunicipioQueimadas ==
    empty(df_queimadas_raw) \/ "Municipio" \notin df_queimadas_raw.colunas

ErroQueimadas == "Não foi possível carregar os dados de queimadas"

(***************************************************************************)
(* C11.  Both filters return an empty table, without raising, when the     *)
(* input table is empty or its municipality column is absent, and the      *)
(* callers then render a 'no data' message instead of failing.             *)
(***************************************************************************)
\* the two functions on a table without rows or without the column
C11_FiltrosVazios ==
    /\ SemMunicipioAlertas =>
          filtrar_alertas_vale_ribeira(df_alertas_raw) = DataFrameVazio
    /\ SemMunicipioQueimadas =>
          /\ ~ filtrar_queimadas_falha(df_queimadas_raw)
          /\ filtrar_queimadas_vale_ribeira(df_queimadas_raw) = DataFrameVazio

\* the callers of lines 908 and 1104: the message of the tab, a placeholder
\* for each of its figures, and no exception
C11_AbasAvisam ==
    /\ (SemMunicipioAlertas /\ Passou("ano_alertas")) =>
          /\ AvisoSemAlertas \in figuras.avisos
          /\ empty(df_alertas_filtrado)
    /\ (SemMunicipioAlertas /\ Passou("ranking_alertas")) =>
          /\ figuras.municipal.estado = "nada"
          /\ figuras.mapa.estado = "warning"
          /\ figuras.temporal.estado = "warning"
          /\ figuras.ranking.estado = "info"
    /\ (SemMunicipioAlertas /\ pc = "excecao") => SegundaAbaFeita
    /\ (SemMunicipioQueimadas /\ SegundaAbaFeita) => pc # "excecao"
    /\ (SemMunicipioQueimadas /\ pc = "fim") =>
          /\ AvisoSemQueimadas \in figuras.avisos
          /\ ErroQueimadas \in erros
          /\ graficos = SemGraficos
          /\ ranking_queimadas = SemRanking

\* the caller of line 379 got the empty result of the filter
CardsSemMunicipio ==
    /\ cards # SemCards
    /\ ~ empty(df_alertas_raw)
    /\ "AREAHA" \in df_alertas_raw.colunas
    /\ "MUNICIPIO" \notin df_alertas_raw.colunas

\* C11 as stated: every caller, the summary cards included, renders a
\* 'no data' message when the filter returned the empty table for want of
\* rows or of the municipality column
C11_TodoChamadorAvisa ==
    /\ C11_FiltrosVazios
    /\ C11_AbasAvisam
    /\ (CardsSemMunicipio /\ pc = "sigef") =>
          (erros # {} \/ figuras.avisos # {})

\* C11 amended: the two tabs render a 'no data' message; the summary cards
\* render no message but a zero alert area and a zero alert count
C11_FiltroSemDados ==
    /\ C11_FiltrosVazios
    /\ C11_AbasAvisam
    /\ CardsSemMunicipio =>
          /\ cards[1] = 0
          /\ cards[4] = 0
          /\ "Erro ao calcular indicadores" \notin erros

\* a run to its end on an alert table without MUNICIPIO and an empty
\* fire-risk table
C11_Testemunha ==
    /\ pc = "fim"
    /\ CardsSemMunicipio
    /\ AvisoSemAlertas \in figuras.avisos
    /\ empty(df_queimadas_raw)
    /\ AvisoSemQueimadas \in figuras.avisos
    /\ ErroQueimadas \in erros

(***************************************************************************)
(* C12.  A non-empty table that lacks an expected column gives an empty or *)
(* placeholder result for the affected chart, table or card and never an   *)
(* uncaught exception, fig_desmatamento_temporal_csv and                   *)
(* fig_desmatamento_municipal_csv included.                                *)
(***************************************************************************)
ColunasEsperadasAlertas == {"MUNICIPIO", "AREAHA", "ANODETEC", "DATADETEC"}

ColunasEsperadasQueimadas ==
    {"Municipio", "RiscoFogo", "Precipitacao", "DiaSemChuva", "DataHora",
     "Latitude", "Longitude"}

\* a non-empty table without one of its expected columns and, in the
\* columns it has, nothing that could make a step fail for another reason
AlertasSemColuna ==
    /\ ~ empty(df_alertas_raw)
    /\ ~ (ColunasEsperadasAlertas \subseteq df_alertas_raw.colunas)
    /\ "AREAHA" \in df_alertas_raw.colunas
          => ~ dtype_object(df_alertas_raw, "AREAHA")
    /\ ~ filtrar_queimadas_falha(df_queimadas_raw)

QueimadasSemColuna ==
    /\ ~ empty(df_queimadas_raw)
    /\ ~ (ColunasEsperadasQueimadas \subseteq df_queimadas_raw.colunas)
    /\ ~ filtrar_queimadas_falha(df_queimadas_raw)
    /\ empty(df_alertas_raw)

\* C12 as stated: no run on such a table ends in an exception, and neither
\* of the two functions raises on the table the script hands to it
C12_ColunaAusenteSemExcecao ==
    /\ (AlertasSemColuna \/ QueimadasSemColuna) => pc # "excecao"
    /\ Passou("ano_alertas") =>
          /\ "AREAHA" \notin df_alertas_vale.colunas
                => ~ fig_desmatamento_temporal_falha(df_alertas_vale)
          /\ "AREAHA" \notin df_alertas_filtrado.colunas
                => ~ fig_desmatamento_municipal_falha(df_alertas_filtrado)

(***************************************************************************)
(* C13.  A non-numeric or out-of-range value in a numeric column is left   *)
(* out of every aggregation over that column, which still produces its     *)
(* result from the remaining rows, and no aggregation over another column  *)
(* and no other component fails because of it.                             *)
(***************************************************************************)
\* the sum of the numeric AREAHA values of the canonical rows
AreaCanonica ==
    soma(coluna_num(df_vale_de(df_alertas_raw), "AREAHA"))

\* an alert table with every column the second tab reads of it but the
\* dates, and a fire-risk table that cannot make the run fail
AlertasComValorRuim ==
    /\ ~ empty(df_alertas_raw)
    /\ {"MUNICIPIO", "AREAHA"} \subseteq df_alertas_raw.colunas
    /\ dtype_object(df_alertas_raw, "AREAHA")
    /\ empty(df_queimadas_raw)

\* C13 as stated: the bad value is dropped by the cards, by the chart of
\* the municipalities and by the alert ranking, and the run does not fail
C13_ValoresRuinsDescartados ==
    AlertasComValorRuim =>
        /\ cards # SemCards => cards[1] = AreaCanonica
        /\ pc # "excecao"
        /\ Passou("municipal") =>
              (figuras.municipal.estado = "exibido" \/ AreaCanonica = 0)

(***************************************************************************)
(* Reference notions of the claims on the fire-risk ranking.               *)
(***************************************************************************)
ColunaDoIndicador(indicador) ==
    CASE indicador = "Maior Risco de Fogo" -> "RiscoFogo"
      [] indicador = "Maior Precipitação (evento)" -> "Precipitacao"
      [] OTHER -> "DiaSemChuva"

\* the value counts for the indicator: a risk of [0, 1], a precipitation
\* or a number of dry days that is not negative
ValorValido(indicador, c) ==
    IF indicador = "Maior Risco de Fogo"
    THEN RiscoNoIntervalo(c)
    ELSE c[1] \in {"num", "str"} /\ c[2] >= 0

\* the rows of the table of the third tab with a valid value in col
LinhasValidas(indicador, col, Cond(_)) ==
    {i \in 1..Len(df_queimadas_filtrado.linhas) :
        /\ ValorValido(indicador, df_queimadas_filtrado.linhas[i][col])
        /\ Cond(df_queimadas_filtrado.linhas[i])}

RECURSIVE SomaCol(_, _)
SomaCol(col, S) ==
    IF S = {} THEN 0
    ELSE LET i == CHOOSE j \in S : TRUE
         IN  df_queimadas_filtrado.linhas[i][col][2] + SomaCol(col, S \ {i})

MaiorCol(col, S) ==
    LET vs == {df_queimadas_filtrado.linhas[i][col][2] : i \in S}
    IN  CHOOSE v \in vs : \A w \in vs : v >= w

\* the primary sort key of a row of the ranking
ChavePrimaria(indicador, linha) ==
    IF indicador = "Maior Risco de Fogo" THEN linha.media ELSE linha.maximo

IndicadorDesconhecido == "Maior Temperatura"

SemDadosParaRanking(indicador) ==
    \/ empty(df_queimadas_filtrado)
    \/ "Municipio" \notin df_queimadas_filtrado.colunas
    \/ \A i \in 1..Len(Indicadores) : Indicadores[i] # indicador
    \/ ColunaDoIndicador(indicador) \notin df_queimadas_filtrado.colunas
    \/ LinhasValidas(indicador, ColunaDoIndicador(indicador),
                     LAMBDA r : TRUE) = {}

C15_RankingSemDados ==
    /\ \A ind \in {Indicadores[i] : i \in 1..Len(Indicadores)}
                     \cup {IndicadorDesconhecido} :
          SemDadosParaRanking(ind) =>
              criar_ranking_queimadas(df_queimadas_filtrado, ind) = <<>>
    /\ ranking_queimadas.feito =>
          /\ pc = "fim"
          /\ SemDadosParaRanking(ranking_queimadas.indicador)
                => ranking_queimadas.linhas = <<>>
          /\ (ranking_queimadas.linhas = <<>>)
                = (AvisoSemRanking \in figuras.avisos)

\* a table with the columns of the indicator and no valid value in them
C15_Testemunha ==
    /\ ranking_queimadas.feito
    /\ ranking_queimadas.indicador = "Maior Precipitação (evento)"
    /\ ~ empty(df_queimadas_filtrado)
    /\ {"Municipio", "Precipitacao"} \subseteq df_queimadas_filtrado.colunas
    /\ \E i \in 1..Len(df_queimadas_filtrado.linhas) :
          df_queimadas_filtrado.linhas[i]["Precipitacao"] = <<"num", -10>>
    /\ ranking_queimadas.linhas = <<>>
    /\ AvisoSemRanking \in figuras.avisos

(***************************************************************************)
(* C16.  The fire-risk ranking built from the output of                    *)
(* filtrar_queimadas_vale_ribeira never has more rows than there are       *)
(* distinct canonical municipalities among the filtered rows, so never     *)
(* more than seven; and the alert ranking never has more rows than there   *)
(* are distinct municipalities in the filtered alert table.                *)
(***************************************************************************)
\* the canonical municipalities of the rows the filter kept
CanonicosFiltrados ==
    {Municipio_norm(df_queimadas_vale.linhas[i]["Municipio"]) :
        i \in 1..Len(df_queimadas_vale.linhas)}

MunicipiosDosAlertas ==
    {df_alertas_filtrado.linhas[i]["MUNICIPIO"] :
        i \in 1..Len(df_alertas_filtrado.linhas)}

C16_LinhasDoRanking ==
    /\ ranking_queimadas.feito =>
          /\ Len(ranking_queimadas.linhas) <= Cardinality(CanonicosFiltrados)
          /\ Len(ranking_queimadas.linhas) <= 7
    /\ figuras.ranking.estado = "exibido" =>
          /\ Len(figuras.ranking.serie) <= Cardinality(MunicipiosDosAlertas)
          /\ Len(figuras.ranking.serie) <= 7

(***************************************************************************)
(* C17.  fig_distribuicao_sigef counts the registry rows per municipio_    *)
(* code, maps each code to its name through a fixed one-to-one map of      *)
(* exactly seven codes onto the seven canonical names, the same map the    *)
(* unified table uses, drops every row whose code is not in the map, and   *)
(* lists the remaining municipalities in ascending order of count; three   *)
(* rows with code 4100103 give exactly {Adrianópolis: 3}.                  *)
(***************************************************************************)
\* the rows of the registry table with the code cod
RegistrosDoCodigo(cod) ==
    {i \in 1..Len(df_sigef_raw.linhas) :
        df_sigef_raw.linhas[i]["municipio_"] = <<"num", cod>>}

\* codes that are not among the seven
OutrosCodigos == {4106902, 4100102, 4127701, 0, 41}

TresRegistros ==
    [colunas |-> {"municipio_"},
     linhas  |-> [i \in 1..3 |-> [municipio_ |-> <<"num", 4100103>>]]]

C17_DistribuicaoSigef ==
    /\ \A c \in SeteCodigos :
          /\ EhCanonico(municipios_map_sigef(c))
          /\ municipios_map_sigef(c) = municipios_map(c)
          /\ \A d \in SeteCodigos :
                municipios_map_sigef(c) = municipios_map_sigef(d) => c = d
    /\ \A i \in 1..7 :
          \E c \in SeteCodigos : municipios_map_sigef(c) = SeteMunicipios[i]
    /\ \A c \in OutrosCodigos :
          municipios_map_sigef(c) = NaN /\ municipios_map(c) = NaN
    /\ (figuras.sigef.estado = "exibido"
           /\ "municipio_" \in df_sigef_raw.colunas) =>
          LET barras == figuras.sigef.serie
          IN  /\ \A k \in 1..Len(barras) :
                    \E c \in SeteCodigos :
                       /\ barras[k].municipio_cod = <<"num", c>>
                       /\ barras[k].municipio = municipios_map_sigef(c)
                       /\ barras[k].quantidade =
                             Cardinality(RegistrosDoCodigo(c))
              /\ \A c \in SeteCodigos :
                    RegistrosDoCodigo(c) # {} =>
                       \E k \in 1..Len(barras) :
                          barras[k].municipio_cod = <<"num", c>>
              /\ \A j \in 1..Len(barras) : \A k \in 1..Len(barras) :
                    j < k =>
                       /\ barras[j].municipio # barras[k].municipio
                       /\ barras[j].quantidade <= barras[k].quantidade
              /\ df_sigef_raw = TresRegistros =>
                    /\ Len(barras) = 1
                    /\ barras[1].municipio = SeteMunicipios[1]
                    /\ barras[1].quantidade = 3

\* two registries of Adrianópolis and one of Cerro Azul: the bar of Cerro
\* Azul comes first
C17_Testemunha ==
    /\ figuras.sigef.estado = "exibido"
    /\ Len(figuras.sigef.serie) = 2
    /\ figuras.sigef.serie[1].municipio = SeteMunicipios[3]
    /\ figuras.sigef.serie[1].quantidade = 1
    /\ figuras.sigef.serie[2].municipio = SeteMunicipios[1]
    /\ figuras.sigef.serie[2].quantidade = 2

(***************************************************************************)
(* C18.  Negative precipitation and dry-day values are dropped: a row with *)
(* Precipitacao < 0 contributes to no aggregate over Precipitacao (the     *)
(* mean of the top municipalities, the mean, maximum and count of the      *)
(* ranking), a row with DiaSemChuva < 0 contributes to no aggregate over   *)
(* DiaSemChuva, and the same row still contributes to the aggregates over  *)
(* its other, valid columns.                                               *)
(***************************************************************************)
IndicadorDaColuna(col) ==
    CASE col = "RiscoFogo" -> "Maior Risco de Fogo"
      [] col = "Precipitacao" -> "Maior Precipitação (evento)"
      [] OTHER -> "Máx. Dias Sem Chuva"

\* the rows of the table of the third tab with a number below zero in col
LinhasNegativas(col) ==
    IF col \in df_queimadas_filtrado.colunas
    THEN {i \in 1..Len(df_queimadas_filtrado.linhas) :
             /\ df_queimadas_filtrado.linhas[i][col][1] \in {"num", "str"}
             /\ df_queimadas_filtrado.linhas[i][col][2] < 0}
    ELSE {}

\* the valid rows of col in the municipality m
ValidasDe(col, m) ==
    LinhasValidas(IndicadorDaColuna(col), col,
                  LAMBDA r : r["Municipio"] = m)

\* the group of municipality m is aggregated from exactly its valid rows
GrupoDasValidas(g, col) ==
    /\ g.quantidade = Cardinality(ValidasDe(col, g.chave))
    /\ g.soma = SomaCol(col, ValidasDe(col, g.chave))
    /\ ValidasDe(col, g.chave) \cap LinhasNegativas(col) = {}

\* row k, negative in another column, is among the valid rows of col that
\* the row of its municipality in the ranking counts
ContadaNoRanking(k, col) ==
    LET m == df_queimadas_filtrado.linhas[k]["Municipio"]
        l == ranking_queimadas.linhas
    IN  (k \in ValidasDe(col, m) /\ m # NaN) =>
           \E i \in 1..Len(l) :
              /\ l[i].Municipio = m
              /\ l[i].quantidade = Cardinality(ValidasDe(col, m))
              /\ l[i].maximo >= df_queimadas_filtrado.linhas[k][col][2]

PcFigurasAlertas ==
    {"uc_alertas", "municipal", "mapa_alertas", "temporal_alertas"}

C19_TabelasSomenteLeitura ==
    [][/\ (JaCarregou(4) /\ JaCarregou(4)') =>
             /\ \A i \in 1..4 : Bruto(i)' = Bruto(i)
             /\ pc = "ano_alertas" => df_alertas_vale' = df_alertas_vale
             /\ pc \in PcFigurasAlertas =>
                   /\ df_alertas_filtrado' = df_alertas_filtrado
                   /\ df_alertas_vale' = df_alertas_vale
             /\ pc = "ranking_alertas" => df_alertas_vale' = df_alertas_vale
             /\ pc \in {"graficos", "ranking"} =>
                   /\ df_queimadas_filtrado' = df_queimadas_filtrado
                   /\ df_queimadas_vale' = df_queimadas_vale
       /\ JaCarregou(4)' =>
             \A i \in 1..4 : Bruto(i)' = primeiro'[Caminhos[i]].df]_vars

\* a second run at its end, after the filter of the third tab added its
\* column to a copy and the year selection kept rows: the fire-risk table
\* is still the one first loaded, without the derived columns
C19_Testemunha ==
    /\ pc = "fim"
    /\ execucao > 1
    /\ ranking_queimadas.feito
    /\ ~ empty(df_queimadas_raw)
    /\ "Municipio_norm" \in df_queimadas_vale.colunas
    /\ "Ano" \in df_queimadas_filtrado.colunas
    /\ "Municipio_norm" \notin df_queimadas_raw.colunas
    /\ df_queimadas_raw = primeiro[Caminhos[4]].df

(***************************************************************************)
(* C20.  Monthly aggregation: the series of the alert areas (the sum of    *)
(* AREAHA) and the series of the fire risk (the mean of the valid          *)
(* RiscoFogo) have at most one bucket per calendar month, labelled         *)
(* 'YYYY-MM', in strictly ascending chronological order, and the value of  *)
(* each bucket comes from exactly the valid rows whose date falls in that  *)
(* month.                                                                  *)
(***************************************************************************)
\* the number a decimal digit stands for, 10 when the character is none
ValorDoDigito(ch) ==
    IF \E d \in 0..9 : Digitos[d + 1] = ch
    THEN CHOOSE d \in 0..9 : Digitos[d + 1] = ch
    ELSE 10

\* the text is 'YYYY-MM' and names the calendar month m (yyyymm)
RotuloDoMes(texto, m) ==
    /\ Len(texto) = 7
    /\ texto[5] = "-"
    /\ \A p \in {1, 2, 3, 4, 6, 7} : ValorDoDigito(texto[p]) < 10
    /\ m = 100000 * ValorDoDigito(texto[1]) + 10000 * ValorDoDigito(texto[2])
              + 1000 * ValorDoDigito(texto[3]) + 100 * ValorDoDigito(texto[4])
              + 10 * ValorDoDigito(texto[6]) + ValorDoDigito(texto[7])
    /\ (m % 100) \in 1..12

\* the alerts of the seven municipalities, of every year, with a date and
\* an area, detected in month m
AlertasDoMes(m) ==
    {i \in 1..Len(df_alertas_vale.linhas) :
        LET r == df_alertas_vale.linhas[i]
        IN  /\ r["DATADETEC"][1] \in {"num", "str"}
            /\ r["AREAHA"][1] \in {"num", "str"}
            /\ r["DATADETEC"][2] \div 100 = m}

\* the sum of the areas of the rows S of the table df
RECURSIVE SomaAreasDe(_, _)
SomaAreasDe(df, S) ==
    IF S = {} THEN 0
    ELSE LET i == CHOOSE j \in S : TRUE
         IN  df.linhas[i]["AREAHA"][2] + SomaAreasDe(df, S \ {i})

RECURSIVE SomaAreas(_)
SomaAreas(S) ==
    IF S = {} THEN 0
    ELSE LET i == CHOOSE j \in S : TRUE
         IN  df_alertas_filtrado.linhas[i]["AREAHA"][2] + SomaAreas(S \ {i})

\* the rows of the third tab with a date and a risk of [0, 1], of month m
RiscosDoMes(m) ==
    {i \in 1..Len(df_queimadas_filtrado.linhas) :
        LET r == df_queimadas_filtrado.linhas[i]
        IN  /\ r["DataHora"][1] \in {"num", "str"}
            /\ RiscoNoIntervalo(r["RiscoFogo"])
            /\ r["DataHora"][2] \div 100 = m}

\* the months are those of the calendar, each at most once, in ascending order
MesesCrescentes(serie) ==
    \A j \in 1..Len(serie) : \A k \in 1..Len(serie) :
       j < k => serie[j].mes < serie[k].mes

C20_AgregacaoMensal ==
    /\ (figuras.temporal.estado = "exibido"
           /\ {"DATADETEC", "AREAHA"} \subseteq df_alertas_vale.colunas) =>
          LET serie == figuras.temporal.serie
          IN  /\ MesesCrescentes(serie)
              /\ \A j \in 1..Len(serie) :
                    /\ RotuloDoMes(serie[j].DATADETEC, serie[j].mes)
                    /\ serie[j].AREAHA =
                          SomaAreasDe(df_alertas_vale,
                                      AlertasDoMes(serie[j].mes))
              /\ \A i \in 1..Len(df_alertas_vale.linhas) :
                    LET m == df_alertas_vale.linhas[i]["DATADETEC"][2]
                                 \div 100
                    IN  i \in AlertasDoMes(m) =>
                           \E j \in 1..Len(serie) : serie[j].mes = m
    /\ graficos.temporal.dados =>
          LET serie == graficos.temporal.serie
          IN  /\ MesesCrescentes(serie)
              /\ \A j \in 1..Len(serie) :
                    /\ RotuloDoMes(serie[j].rotulo, serie[j].mes)
                    /\ serie[j].quantidade =
                          Cardinality(RiscosDoMes(serie[j].mes))
                    /\ serie[j].soma =
                          SomaCol("RiscoFogo", RiscosDoMes(serie[j].mes))
              /\ \A i \in 1..Len(df_queimadas_filtrado.linhas) :
                    LET m == df_queimadas_filtrado.linhas[i]["DataHora"][2]
                                 \div 100
                    IN  i \in RiscosDoMes(m) =>
                           \E j \in 1..Len(serie) : serie[j].mes = m

\* alerts of March and of May 2022: three buckets, the one of April empty
C20_Testemunha ==
    /\ figuras.temporal.estado = "exibido"
    /\ Len(figuras.temporal.serie) = 3
    /\ figuras.temporal.serie[1].DATADETEC = <<"2","0","2","2","-","0","3">>
    /\ figuras.temporal.serie[1].AREAHA = 1250
    /\ figuras.temporal.serie[2].AREAHA = 0
    /\ figuras.temporal.serie[3].DATADETEC = <<"2","0","2","2","-","0","5">>
    /\ figuras.temporal.serie[3].AREAHA = 1250

(***************************************************************************)
(* C21.  Top-N selection: the bar charts of the fire risk and of the       *)
(* precipitation group the valid rows by municipality, take the mean of    *)
(* each group, keep the (at most) seven groups of largest mean and present *)
(* them in ascending order of mean; no group left out has a mean larger    *)
(* than a group kept.                                                      *)
(***************************************************************************)
\* the municipalities of the table of the third tab with a valid row in col
GruposValidos(col) ==
    {df_queimadas_filtrado.linhas[i]["Municipio"] :
        i \in LinhasValidas(IndicadorDaColuna(col), col,
                            LAMBDA r : r["Municipio"] # NaN)}

\* soma / quantidade of g is at most soma / quantidade of h
MediaNaoMaior(g, h) == g.soma * h.quantidade <= h.soma * g.quantidade

\* the bars are seven or fewer groups of valid rows, each with the sum and
\* the count of its rows, in ascending order of mean, and every group
\* without a bar has a mean no larger than that of any bar
SeteMaiores(serie, col) ==
    LET G == GruposValidos(col)
        comBarra == {serie[j].chave : j \in 1..Len(serie)}
    IN  /\ Len(serie) = (IF Cardinality(G) < 7 THEN Cardinality(G) ELSE 7)
        /\ comBarra \subseteq G
        /\ \A j \in 1..Len(serie) : GrupoDasValidas(serie[j], col)
        /\ \A j \in 1..Len(serie) : \A k \in 1..Len(serie) :
              j < k => /\ serie[j].chave # serie[k].chave
                       /\ MediaNaoMaior(serie[j], serie[k])
        /\ \A m \in G \ comBarra : \A j \in 1..Len(serie) :
              MediaNaoMaior([soma       |-> SomaCol(col, ValidasDe(col, m)),
                             quantidade |-> Cardinality(ValidasDe(col, m))],
                            serie[j])

C21_SeteMaiores ==
    /\ graficos.top_risco.dados =>
          SeteMaiores(graficos.top_risco.serie, "RiscoFogo")
    /\ graficos.top_precip.dados =>
          SeteMaiores(graficos.top_precip.serie, "Precipitacao")
    /\ (graficos.feito
           /\ {"Municipio", "RiscoFogo"} \subseteq df_queimadas_filtrado.colunas)
          => (graficos.top_risco.dados <=> GruposValidos("RiscoFogo") # {})
    /\ (graficos.feito
           /\ {"Municipio", "Precipitacao"}
                 \subseteq df_queimadas_filtrado.colunas)
          => (graficos.top_precip.dados <=> GruposValidos("Precipitacao") # {})

\* eight groups of valid risk: seven bars, the first of two rows of mean
\* 0.5, the last of mean 0.8, and the group left out of mean 0.2
C21_Testemunha ==
    /\ graficos.top_risco.dados
    /\ Cardinality(GruposValidos("RiscoFogo")) = 8
    /\ Len(graficos.top_risco.serie) = 7
    /\ graficos.top_risco.serie[1].chave = municipios_vale_queimadas[1]
    /\ graficos.top_risco.serie[1].quantidade = 2
    /\ graficos.top_risco.serie[1].soma = 1000
    /\ graficos.top_risco.serie[7].soma = 800
    /\ \E m \in GruposValidos("RiscoFogo") :
          /\ \A j \in 1..7 : graficos.top_risco.serie[j].chave # m
          /\ SomaCol("RiscoFogo", ValidasDe("RiscoFogo", m)) = 200

(***************************************************************************)
(* C22.  Alert ranking: for the filtered alert table the ranking has one   *)
(* row per municipality present, with the sum, the count and the mean of   *)
(* AREAHA, sorted by total area descending, with the positions 1..n in     *)
(* that order; the table of the single row {MUNICIPIO: Cerro Azul, AREAHA: *)
(* 12.5, ANODETEC: 2022} passes the municipality filter and yields a       *)
(* single entry of sum 12.5, count 1 and mean 12.5.                        *)
(***************************************************************************)
\* the alerts of municipality m in the table of the second tab with an area
AlertasComAreaDe(m) ==
    {i \in 1..Len(df_alertas_filtrado.linhas) :
        /\ df_alertas_filtrado.linhas[i]["MUNICIPIO"] = m
        /\ df_alertas_filtrado.linhas[i]["AREAHA"][1] \in {"num", "str"}}

UmAlertaDeCerroAzul ==
    [colunas |-> {"MUNICIPIO", "AREAHA", "ANODETEC"},
     linhas  |-> <<[MUNICIPIO |-> SeteMunicipios[3],
                    AREAHA    |-> <<"num", 1250>>,
                    ANODETEC  |-> <<"num", 2022>>]>>]

C22_RankingDeAlertas ==
    figuras.ranking.estado = "exibido" =>
        LET l == figuras.ranking.serie
        IN  /\ {l[i].MUNICIPIO : i \in 1..Len(l)} =
                  {df_alertas_filtrado.linhas[i]["MUNICIPIO"] :
                      i \in 1..Len(df_alertas_filtrado.linhas)} \ {NaN}
            /\ \A i \in 1..Len(l) :
                  LET V == AlertasComAreaDe(l[i].MUNICIPIO)
                  IN  /\ l[i].Posicao = i
                      /\ l[i].Area_Total = SomaAreas(V)
                      /\ l[i].Qtd = Cardinality(V)
                      /\ l[i].Area_Media =
                            IF V = {} THEN NumNaN
                            ELSE <<"num", round_div(SomaAreas(V),
                                                    Cardinality(V))>>
            /\ \A i \in 1..Len(l) : \A j \in 1..Len(l) :
                  i < j => /\ l[i].MUNICIPIO # l[j].MUNICIPIO
                           /\ l[i].Area_Total >= l[j].Area_Total
            /\ df_alertas_raw = UmAlertaDeCerroAzul =>
                  /\ df_alertas_vale = df_alertas_raw
                  /\ Len(l) = 1
                  /\ l[1].MUNICIPIO = SeteMunicipios[3]
                  /\ l[1].Area_Total = 1250
                  /\ l[1].Qtd = 1
                  /\ l[1].Area_Media = <<"num", 1250>>

\* Cerro Azul with 12.5 ha ahead of Adrianópolis with 0.04 ha, against the
\* alphabetical order of the groups
C22_Testemunha ==
    /\ figuras.ranking.estado = "exibido"
    /\ Len(figuras.ranking.serie) = 2
    /\ figuras.ranking.serie[1].MUNICIPIO = SeteMunicipios[3]
    /\ figuras.ranking.serie[1].Area_Total = 1250
    /\ figuras.ranking.serie[1].Posicao = 1
    /\ figuras.ranking.serie[2].MUNICIPIO = SeteMunicipios[1]
    /\ figuras.ranking.serie[2].Area_Total = 4
    /\ figuras.ranking.serie[2].Posicao = 2

\* the table of the single alert of Cerro Azul, ranked
C22_TestemunhaUmAlerta ==
    /\ figuras.ranking.estado = "exibido"
    /\ df_alertas_raw = UmAlertaDeCerroAzul

(***************************************************************************)
(* C23.  Scope of the year filter of the alerts: choosing a year Y         *)
(* restricts the chart of the municipalities and the alert ranking to the  *)
(* rows with ANODETEC = Y, choosing 'Todos' restores all the filtered      *)
(* rows, and the alert map, the monthly series, the summary cards and the  *)
(* unified table are unchanged by the selection, computed over the alerts  *)
(* of all years.                                                           *)
(***************************************************************************)
\* the table is the alerts of the seven municipalities, all of them
\* ('Todos') or those of one of their years
RecorteDeAno(df) ==
    \/ df = df_alertas_vale
    \/ /\ "ANODETEC" \in df_alertas_vale.colunas
       /\ \E i \in 1..Len(df_alertas_vale.linhas) :
             /\ df_alertas_vale.linhas[i]["ANODETEC"][1] = "num"
             /\ df = [colunas |-> df_alertas_vale.colunas,
                      linhas  |->
                         SelectSeq(df_alertas_vale.linhas,
                            LAMBDA r : r["ANODETEC"] =
                                df_alertas_vale.linhas[i]["ANODETEC"])]

\* the rows of municipality m in the table df; with an area when comArea
AlertasDe(df, m, comArea) ==
    {i \in 1..Len(df.linhas) :
        /\ df.linhas[i]["MUNICIPIO"] = m
        /\ comArea => df.linhas[i]["AREAHA"][1] \in {"num", "str"}}

\* what is shown of the selected year: the bars and the ranking
DoAnoEscolhido ==
    /\ figuras.municipal.estado = "exibido" =>
          \A k \in 1..Len(figuras.municipal.serie) :
             LET b == figuras.municipal.serie[k]
                 V == AlertasDe(df_alertas_filtrado, b.MUNICIPIO, TRUE)
             IN  /\ b.Quantidade = Cardinality(V)
                 /\ b.Area_Total_ha =
                       round1(SomaAreasDe(df_alertas_filtrado, V))
    /\ figuras.ranking.estado = "exibido" =>
          \A k \in 1..Len(figuras.ranking.serie) :
             LET l == figuras.ranking.serie[k]
                 V == AlertasDe(df_alertas_filtrado, l.MUNICIPIO, TRUE)
             IN  /\ l.Qtd = Cardinality(V)
                 /\ l.Area_Total = SomaAreasDe(df_alertas_filtrado, V)
                 /\ \A i \in V :
                       df_alertas_filtrado.linhas[i]["ANODETEC"][1] = "num" =>
                          /\ l.Ano_Min[2] <=
                                df_alertas_filtrado.linhas[i]["ANODETEC"][2]
                          /\ l.Ano_Max[2] >=
                                df_alertas_filtrado.linhas[i]["ANODETEC"][2]

\* what is computed over the alerts of all years
DeTodosOsAnos ==
    /\ figuras.mapa.estado = "exibido" =>
          /\ {figuras.mapa.serie[k].MUNICIPIO :
                 k \in 1..Len(figuras.mapa.serie)} =
                {df_alertas_vale.linhas[i]["MUNICIPIO"] :
                    i \in 1..Len(df_alertas_vale.linhas)}
          /\ \A k \in 1..Len(figuras.mapa.serie) :
                LET pt == figuras.mapa.serie[k]
                IN  /\ pt.QTD_ALERTAS =
                          Cardinality(AlertasDe(df_alertas_vale,
                                                pt.MUNICIPIO, FALSE))
                    /\ pt.AREA_TOTAL =
                          SomaAreasDe(df_alertas_vale,
                              AlertasDe(df_alertas_vale, pt.MUNICIPIO, TRUE))
    /\ (figuras.temporal.estado = "exibido"
           /\ {"DATADETEC", "AREAHA"} \subseteq df_alertas_vale.colunas) =>
          \A j \in 1..Len(figuras.temporal.serie) :
             figuras.temporal.serie[j].AREAHA =
                SomaAreasDe(df_alertas_vale,
                            AlertasDoMes(figuras.temporal.serie[j].mes))
    /\ (cards # SemCards
           /\ {"MUNICIPIO", "AREAHA"} \subseteq df_alertas_raw.colunas
           /\ ~ dtype_object(df_alertas_raw, "AREAHA")) =>
          LET V == UNION {AlertasDe(df_alertas_raw, SeteMunicipios[n], TRUE) :
                             n \in 1..7}
              T == UNION {AlertasDe(df_alertas_raw, SeteMunicipios[n], FALSE) :
                             n \in 1..7}
          IN  /\ cards[1] = SomaAreasDe(df_alertas_raw, V)
              /\ cards[4] = Cardinality(T)
    /\ (tabela.mostrada
           /\ {"MUNICIPIO", "AREAHA"} \subseteq df_alertas_raw.colunas
           /\ ~ dtype_object(df_alertas_raw, "AREAHA")) =>
          \A n \in 1..7 :
             tabela.linhas[n].alertas =
                round1(SomaAreasDe(df_alertas_raw,
                          AlertasDe(df_alertas_raw, SeteMunicipios[n], TRUE)))

C23_TestemunhaTodos ==
    /\ figuras.ranking.estado = "exibido"
    /\ df_alertas_filtrado = df_alertas_vale
    /\ Len(df_alertas_vale.linhas) = 2
    /\ df_alertas_vale.linhas[1]["ANODETEC"] # df_alertas_vale.linhas[2]["ANODETEC"]
    /\ figuras.ranking.serie[1].Area_Total = 1254

(***************************************************************************)
(* C24.  The cards agree with the unified table on the alerts: the total   *)
(* alert area of the cards equals the TOTAL of 'Alertas (ha)' of the       *)
(* unified table before the rounding, both are 0 when the alert table is   *)
(* empty or lacks MUNICIPIO or AREAHA, and the alert count of the cards    *)
(* equals the number of rows the filter of the alerts keeps.               *)
(***************************************************************************)
\* the TOTAL of 'Alertas (ha)' as line 539 wrote it, before lines 541-542;
\* the column is filled from the alert table alone
TotalDeAlertas ==
    df_unificado_com_total(df_alertas_raw, DataFrameVazio,
                           DataFrameVazio)[8].alertas

\* the alert table gives nothing to sum
SemAreaDeAlertas ==
    \/ empty(df_alertas_raw)
    \/ "MUNICIPIO" \notin df_alertas_raw.colunas
    \/ "AREAHA" \notin df_alertas_raw.colunas

\* the cards and the table agree on the alert area
AreasDeAcordo ==
    LET total == TotalDeAlertas
    IN  /\ tabela.linhas[8].indice = TOTAL
        /\ tabela.linhas[8].alertas = round1(total)
        /\ cards[1] = total
        /\ SemAreaDeAlertas => (cards[1] = 0 /\ total = 0)

\* C24 as stated: the count is that of the filter, whatever the columns
C24_ContagemDoFiltro ==
    (cards # SemCards /\ tabela.mostrada) =>
        /\ AreasDeAcordo
        /\ cards[4] = Len(AlertasCanonicos.linhas)

\* C24 amended: the count is that of the filter when the table has the
\* column AREAHA, and 0 when it lacks it
C24_CardsEDaTabela ==
    (cards # SemCards /\ tabela.mostrada) =>
        /\ AreasDeAcordo
        /\ cards[4] = IF "AREAHA" \in df_alertas_raw.colunas
                      THEN Len(AlertasCanonicos.linhas)
                      ELSE 0

\* an alert of Cerro Azul and one of Curitiba: the cards and the TOTAL hold
\* the area of the first alone, and the count is 1
C24_Testemunha ==
    /\ cards # SemCards
    /\ tabela.mostrada
    /\ Len(df_alertas_raw.linhas) = 2
    /\ "AREAHA" \in df_alertas_raw.colunas
    /\ Len(AlertasCanonicos.linhas) = 1
    /\ cards[1] = 1250
    /\ cards[4] = 1
    /\ TotalDeAlertas = 1250
    /\ \E i \in 1..2 : /\ df_alertas_raw.linhas[i]["MUNICIPIO"] = Curitiba
                       /\ df_alertas_raw.linhas[i]["AREAHA"] = <<"num", 4>>

(***************************************************************************)
(* C25.  Attribution of the conservation areas in the unified table: the   *)
(* ha_total of a unit is added to the 'CNUC (ha)' cell of every canonical  *)
(* municipality whose upper-case name occurs in the upper-case free text   *)
(* of the unit's municipio, and to no other cell; a unit naming k          *)
(* canonical municipalities adds k times its area to the TOTAL row, and a  *)
(* unit naming none, or without municipio, adds nothing.                   *)
(***************************************************************************)
\* the conservation unit of row i names the n-th canonical municipality
UnidadeNomeia(i, n) ==
    /\ df_cnuc_raw.linhas[i]["municipio"] # NaN
    /\ str_contains(str_upper(df_cnuc_raw.linhas[i]["municipio"]),
                    str_upper(SeteMunicipios[n]))

\* the area of the unit of row i, 0 when it is missing
AreaDaUnidade(i) ==
    IF "ha_total" \in df_cnuc_raw.colunas
          /\ df_cnuc_raw.linhas[i]["ha_total"][1] \in {"num", "str"}
    THEN df_cnuc_raw.linhas[i]["ha_total"][2]
    ELSE 0

\* the areas of the units 1..i naming the n-th municipality, added up
RECURSIVE AreaNomeada(_, _)
AreaNomeada(i, n) ==
    IF i = 0 THEN 0
    ELSE (IF UnidadeNomeia(i, n) THEN AreaDaUnidade(i) ELSE 0)
            + AreaNomeada(i - 1, n)

\* over the units 1..i, the area of each times the number of canonical
\* municipalities it names
RECURSIVE AreaVezesNomes(_)
AreaVezesNomes(i) ==
    IF i = 0 THEN 0
    ELSE Cardinality({n \in 1..7 : UnidadeNomeia(i, n)}) * AreaDaUnidade(i)
            + AreaVezesNomes(i - 1)

C25_AtribuicaoCnuc ==
    (tabela.mostrada /\ "municipio" \in df_cnuc_raw.colunas) =>
        /\ \A n \in 1..7 :
              /\ tabela.linhas[n].indice = SeteMunicipios[n]
              /\ tabela.linhas[n].cnuc =
                    round1(AreaNomeada(Len(df_cnuc_raw.linhas), n))
        /\ tabela.linhas[8].cnuc =
              round1(AreaVezesNomes(Len(df_cnuc_raw.linhas)))
        /\ (\A i \in 1..Len(df_cnuc_raw.linhas) : \A n \in 1..7 :
               ~ UnidadeNomeia(i, n)) =>
              \A n \in 1..8 : tabela.linhas[n].cnuc = 0

\* a unit of 12.5 ha in 'Cerro Azul e Adrianópolis' and a unit of Curitiba:
\* 12.5 ha in each of the two cells, 25 ha in the TOTAL, nothing elsewhere
C25_Testemunha ==
    /\ tabela.mostrada
    /\ Len(df_cnuc_raw.linhas) = 2
    /\ {"municipio", "ha_total"} \subseteq df_cnuc_raw.colunas
    /\ \E i \in 1..2 :
          /\ df_cnuc_raw.linhas[i]["municipio"] = CerroAzulEAdrianopolis
          /\ df_cnuc_raw.linhas[i]["ha_total"] = <<"num", 1250>>
    /\ \E i \in 1..2 : df_cnuc_raw.linhas[i]["municipio"] = Curitiba
    /\ tabela.linhas[1].cnuc = 1250
    /\ tabela.linhas[3].cnuc = 1250
    /\ tabela.linhas[2].cnuc = 0
    /\ tabela.linhas[8].cnuc = 2500

====
